---- MODULE Spec2Model ----
(***************************************************************************)
(* IEC 62056-21 client (srgsf/iec62056.golang): the message codec, the     *)
(* framed I/O rules and the TariffDevice session state machine, modelled   *)
(* from the latest revision of the sources (src/io_test.go holds the       *)
(* session, src/unnamed/part_000 the codec, src/unnamed/part_001 the       *)
(* transport).                                                             *)
(*                                                                         *)
(* Bytes are naturals 0..255, byte strings are sequences of bytes.  Go     *)
(* slices are 0-based and half open; Slice(data, lo, hi) is data[lo:hi].   *)
(* Time is counted in seconds.                                             *)
(***************************************************************************)
EXTENDS Integers, Sequences, FiniteSets, TLC

VARIABLES
    connection,       \* TariffDevice.connection: TRUE when a Conn is set, FALSE when nil
    address,          \* TariffDevice.address
    pass,             \* TariffDevice.pass: "nil" or the command id the callback answers with
    IdleTimeout,      \* TariffDevice.IdleTimeout
    programmingMode,  \* TariffDevice.programmingMode
    lastActivity,     \* TariffDevice.lastActivity
    identity,         \* TariffDevice.identity: <<>> (nil) or <<id>>
    now,              \* time.Now()
    sock,             \* bytes the meter has sent that the bufio.Reader has not pulled yet
    pc,               \* where the running public operation is blocked ("idle": none
                      \* runs, "done": it has returned and the caller holds the result)
    ctx,              \* the running operation's locals (which call chain, frame, attempt)
    io,               \* transport calls of the running (or last finished) operation, in order
    res,              \* what the last finished public operation returned
    sent,             \* the frame written last and not yet followed by a read call
    tc,               \* a tcpConn on which writeMessage and readMessage are called directly
    codec             \* a call of one codec function: its name, its input and its result

vars == <<connection, address, pass, IdleTimeout, programmingMode, lastActivity,
          identity, now, sock, pc, ctx, io, res, sent, tc, codec>>

\* the session and its transport, and the two harnesses beside it
SessionVars == <<connection, address, pass, IdleTimeout, programmingMode, lastActivity,
                 identity, now, sock, pc, ctx, io, res, sent>>
Harness == <<tc, codec>>

----------------------------------------------------------------------------
\* Protocol constants (src/unnamed/part_000)

defaultInactivityTo == 120
start == 47
end == 33
ack == 6
soh == 1
stx == 2
etx == 3
trc == 63
nak == 21
cr == 13
lf == 10
fb == 40
rb == 41
star == 42

crlf == <<cr, lf>>

ModeA == "A"
ModeB == "B"
ModeC == "C"
ModeD == "D"

NormalPCC == 48
SecondaryPCC == 49

DataReadOut == 48
ProgrammingMode == 49
Option6 == 54

\* var commands = map[CommandId][2]byte{...}; 66 = 'B', 69 = 'E', 80 = 'P', 82 = 'R', 87 = 'W'
commands ==
    [P0 |-> <<80, 48>>, P1 |-> <<80, 49>>, P2 |-> <<80, 50>>,
     W1 |-> <<87, 49>>, W2 |-> <<87, 50>>, R1 |-> <<82, 49>>,
     R2 |-> <<82, 50>>, E2 |-> <<69, 50>>, B0 |-> <<66, 48>>]

CmdB0 == "B0"

breakMsg == <<soh, commands[CmdB0][1], commands[CmdB0][2], etx>>

\* The zero time.Time, the value of lastActivity before any frame was read:
\* an instant that lies further back than any idle timeout reaches.
ZeroTime == -1000000

----------------------------------------------------------------------------
\* Byte-string helpers (Go's slicing and bytes.IndexByte)

Slice(data, lo, hi) == SubSeq(data, lo + 1, hi)

IndexByte(data, b) ==
    LET at == { i \in 1..Len(data) : data[i] = b }
    IN  IF at = {} THEN -1
        ELSE (CHOOSE i \in at : \A j \in at : i <= j) - 1

\* func bcc: an 8-bit accumulator, masked with 0x7f at the end
RECURSIVE bccAcc(_, _)
bccAcc(data, c) ==
    IF data = <<>> THEN c
    ELSE bccAcc(Tail(data), (c + Head(data)) % 256)

\* bcc without the final mask
bccNoMask(data) == bccAcc(data, 0)

bcc(data) == bccAcc(data, 0) % 128

----------------------------------------------------------------------------
\* Message codec (src/unnamed/part_000)

EmptyDataSet == [Address |-> <<>>, Value |-> <<>>, Unit |-> <<>>]

\* DataSet.MarshalBinary without its unit part
DataSetMarshalNoUnit(ds) ==
    IF Len(ds.Address) + Len(ds.Value) + Len(ds.Unit) = 0
    THEN <<>>
    ELSE ds.Address \o <<fb>> \o ds.Value \o <<rb>>

\* func (ds *DataSet) MarshalBinary
DataSetMarshal(ds) ==
    IF Len(ds.Address) + Len(ds.Value) + Len(ds.Unit) = 0
    THEN <<>>
    ELSE ds.Address \o <<fb>> \o ds.Value
         \o (IF Len(ds.Unit) # 0 THEN <<star>> \o ds.Unit ELSE <<>>)
         \o <<rb>>

\* func (ds *DataSet) UnmarshalBinary; err "panic" is the slice-bounds panic of
\* data[fbIdx+1 : rbIdx] when the first ')' stands before the first '('
DataSetUnmarshal(data) ==
    LET fbIdx == IndexByte(data, fb)
        rbIdx == IndexByte(data, rb)
    IN  IF fbIdx = -1
        THEN [err |-> "front boundary is missing", ds |-> EmptyDataSet]
        ELSE IF rbIdx = -1
        THEN [err |-> "rear boundary is missing", ds |-> EmptyDataSet]
        ELSE IF fbIdx + 1 > rbIdx
        THEN [err |-> "panic", ds |-> EmptyDataSet]
        ELSE LET inner == Slice(data, fbIdx + 1, rbIdx)
                 spIdx == IndexByte(inner, star)
                 addr  == IF fbIdx > 0 THEN Slice(data, 0, fbIdx) ELSE <<>>
             IN  IF spIdx = -1
                 THEN [err |-> "nil",
                       ds |-> [Address |-> addr, Value |-> inner, Unit |-> <<>>]]
                 ELSE [err |-> "nil",
                       ds |-> [Address |-> addr,
                               Value |-> Slice(inner, 0, spIdx),
                               Unit |-> Slice(inner, spIdx + 1, Len(inner))]]

\* func (dl *DataLine) UnmarshalBinary: the scanner hands out the tokens that end
\* at a ')'; what follows the last ')' makes the split function fail, Scan()
\* returns false and the loop ends without looking at s.Err()
RECURSIVE DataLineScan(_, _)
DataLineScan(data, sets) ==
    LET i == IndexByte(data, rb)
    IN  IF data = <<>> \/ i = -1
        THEN [err |-> "nil", Sets |-> sets]
        ELSE LET r == DataSetUnmarshal(Slice(data, 0, i + 1))
             IN  IF r.err # "nil"
                 THEN [err |-> r.err, Sets |-> sets]
                 ELSE DataLineScan(Slice(data, i + 1, Len(data)), Append(sets, r.ds))

DataLineUnmarshal(data) == DataLineScan(data, <<>>)

\* bufio.ScanLines' dropCR
dropCR(data) ==
    IF Len(data) > 0 /\ data[Len(data)] = cr
    THEN Slice(data, 0, Len(data) - 1)
    ELSE data

\* func (db *DataBlock) UnmarshalBinary: bufio.ScanLines tokens, a last line
\* without LF included when it is not empty; every line is appended
RECURSIVE DataBlockScan(_, _)
DataBlockScan(data, lines) ==
    IF data = <<>>
    THEN [err |-> "nil", Lines |-> lines]
    ELSE LET i    == IndexByte(data, lf)
             tok  == IF i >= 0 THEN dropCR(Slice(data, 0, i)) ELSE dropCR(data)
             rest == IF i >= 0 THEN Slice(data, i + 1, Len(data)) ELSE <<>>
             dl   == DataLineUnmarshal(tok)
         IN  IF dl.err # "nil"
             THEN [err |-> dl.err, Lines |-> lines]
             ELSE DataBlockScan(rest, Append(lines, dl.Sets))

DataBlockUnmarshal(data) == DataBlockScan(data, <<>>)

\* func (c *Command) MarshalBinary; payload is <<>> (nil) or <<ds>>
CommandMarshal(id, payload) ==
    LET pl == IF payload # <<>> THEN DataSetMarshal(payload[1]) ELSE <<>>
    IN  IF id \notin DOMAIN commands
        THEN [err |-> "invalid command", data |-> <<>>]
        ELSE [err |-> "nil",
              data |-> <<soh, commands[id][1], commands[id][2]>>
                       \o (IF Len(pl) # 0 THEN <<stx>> \o pl ELSE <<>>)
                       \o <<etx>>]

\* an option-select with the baud rate id and the option swapped
OptionMarshalSwapped(o) == <<ack, o.PCC, o.Option, o.bri>>

\* func (o *OptionSelectMessage) MarshalBinary
OptionMarshal(o) == <<ack, o.PCC, o.bri, o.Option>>

\* func (address requestMessage) MarshalBinary
RequestMarshal(addr) ==
    IF Len(addr) = 0 THEN <<start, trc, end>>
    ELSE <<start, trc>> \o addr \o <<end>>

\* func decodeMode; 48..57 = '0'..'9', 65..73 = 'A'..'I'
decodeMode(b) ==
    IF 48 <= b /\ b <= 57 THEN ModeC
    ELSE IF 65 <= b /\ b <= 73 THEN ModeB
    ELSE ModeA

\* func decodeBaudRate
decodeBaudRate(b) ==
    CASE b \in {65, 49} -> 600
      [] b \in {66, 50} -> 1200
      [] b \in {67, 51} -> 2400
      [] b \in {68, 52} -> 4800
      [] b \in {69, 53} -> 9600
      [] OTHER -> 300

NoIdentity == [Device |-> <<>>, Manufacturer |-> <<>>, Mode |-> ModeA, bri |-> 0]

\* Identity.UnmarshalBinary that takes every meter for a Mode C meter
IdentityUnmarshalModeC(data) ==
    IF Len(data) < 4
    THEN [err |-> "identity message too short", id |-> NoIdentity]
    ELSE IF 4 > Len(data) - 2
    THEN [err |-> "panic", id |-> NoIdentity]
    ELSE [err |-> "nil",
          id |-> [Device |-> Slice(data, 4, Len(data) - 2),
                  Manufacturer |-> Slice(data, 0, 3),
                  Mode |-> ModeC,
                  bri |-> data[4]]]

\* func (id *Identity) UnmarshalBinary; err "panic" is the slice-bounds panic of
\* data[4 : len(data)-2] for 4 or 5 bytes
IdentityUnmarshal(data) ==
    IF Len(data) < 4
    THEN [err |-> "identity message too short", id |-> NoIdentity]
    ELSE IF 4 > Len(data) - 2
    THEN [err |-> "panic", id |-> NoIdentity]
    ELSE [err |-> "nil",
          id |-> [Device |-> Slice(data, 4, Len(data) - 2),
                  Manufacturer |-> Slice(data, 0, 3),
                  Mode |-> decodeMode(data[4]),
                  bri |-> data[4]]]

----------------------------------------------------------------------------
\* Framed I/O (src/io_test.go, readMessage and writeMessage)

MaxAttempts == 5

\* readMessage that verifies the BCC against the bytes before the ETX only
ParseFrameBccBody(s) ==
    IF s = <<>>
    THEN [data |-> <<>>, err |-> "timeout", n |-> 0]
    ELSE LET head == s[1]
             body == Tail(s)
         IN  IF head = nak THEN [data |-> <<head>>, err |-> "ErrNAK", n |-> 1]
             ELSE IF head = ack THEN [data |-> <<head>>, err |-> "nil", n |-> 1]
             ELSE IF head \notin {stx, soh, start}
             THEN [data |-> <<>>, err |-> "ErrInvalidFrame", n |-> 1]
             ELSE LET delimiter == IF head = start THEN lf ELSE etx
                      i == IndexByte(body, delimiter)
                      data == Slice(body, 0, i + 1)
                  IN  IF i = -1
                      THEN [data |-> <<>>, err |-> "timeout", n |-> Len(s)]
                      ELSE IF delimiter # etx
                      THEN [data |-> data, err |-> "nil", n |-> i + 2]
                      ELSE IF Len(body) < i + 2
                      THEN [data |-> <<>>, err |-> "timeout", n |-> Len(s)]
                      ELSE [data |-> data,
                            err |-> IF body[i + 2] # bcc(Slice(body, 0, i))
                                    THEN "ErrBCC" ELSE "nil",
                            n |-> i + 3]

\* What readMessage makes of the bytes s that arrive before the read deadline:
\* the frame, its error and the number n of bytes it took.  Waiting for a byte
\* that never comes ends in the transport's timeout.
ParseFrame(s) ==
    IF s = <<>>
    THEN [data |-> <<>>, err |-> "timeout", n |-> 0]
    ELSE LET head == s[1]
             body == Tail(s)
         IN  IF head = nak THEN [data |-> <<head>>, err |-> "ErrNAK", n |-> 1]
             ELSE IF head = ack THEN [data |-> <<head>>, err |-> "nil", n |-> 1]
             ELSE IF head \notin {stx, soh, start}
             THEN [data |-> <<>>, err |-> "ErrInvalidFrame", n |-> 1]
             ELSE LET delimiter == IF head = start THEN lf ELSE etx
                      i == IndexByte(body, delimiter)
                      data == Slice(body, 0, i + 1)
                  IN  IF i = -1
                      THEN [data |-> <<>>, err |-> "timeout", n |-> Len(s)]
                      ELSE IF delimiter # etx
                      THEN [data |-> data, err |-> "nil", n |-> i + 2]
                      ELSE IF Len(body) < i + 2
                      THEN [data |-> <<>>, err |-> "timeout", n |-> Len(s)]
                      ELSE [data |-> data,
                            err |-> IF body[i + 2] # bcc(data) THEN "ErrBCC" ELSE "nil",
                            n |-> i + 3]

\* writeMessage that ends a command frame with CR LF and an option-select with
\* its BCC
WireSuffixSwapped(data) ==
    IF data[1] = soh THEN crlf
    ELSE IF data[1] = ack THEN <<bcc(Tail(data))>>
    ELSE IF data[1] = start THEN crlf
    ELSE <<>>

\* the suffix writeMessage writes behind data, by data[0]
WireSuffix(data) ==
    IF data[1] = soh THEN <<bcc(Tail(data))>>
    ELSE IF data[1] \in {start, ack} THEN crlf
    ELSE <<>>

\* The bytes writeMessage puts on the wire for data
WireFrame(data) == data \o WireSuffix(data)

\* writeMessage's error: e is what the transport answers ("nil" or "ioerr")
WriteErr(data, e) ==
    IF Len(data) = 0 THEN "nil"
    ELSE IF ~connection THEN "ErrNoConnection"
    ELSE e

----------------------------------------------------------------------------
\* The session (src/io_test.go, TariffDevice).  A machine record m holds the
\* fields the code of one call changes; the code between two transport calls
\* is a function from m to m.

Cur ==
    [identity |-> identity, programmingMode |-> programmingMode,
     lastActivity |-> lastActivity, IdleTimeout |-> IdleTimeout,
     pc |-> pc, ctx |-> ctx, io |-> io, res |-> res, sent |-> sent]

Set(m) ==
    /\ identity' = m.identity
    /\ programmingMode' = m.programmingMode
    /\ lastActivity' = m.lastActivity
    /\ IdleTimeout' = m.IdleTimeout
    /\ pc' = m.pc
    /\ ctx' = m.ctx
    /\ io' = m.io
    /\ res' = m.res
    /\ sent' = m.sent

NoOption == [Option |-> 0, PCC |-> 0, bri |-> 0, skipHandShake |-> FALSE]
NoCommand == [Id |-> "", Payload |-> <<>>]

Ctx0(op) ==
    [op |-> op, hsFor |-> "", optFor |-> "", passFor |-> "", cmdFor |-> "",
     p |-> <<>>, i |-> 0, o |-> NoOption, cmd |-> NoCommand, id |-> NoIdentity,
     ipm |-> "none", text |-> <<>>, cb |-> <<>>,
     pre |-> [id |-> FALSE, pm |-> FALSE]]

NoRes == [op |-> "", err |-> "nil", block |-> <<>>, id |-> <<>>]

\* transport calls: a frame write (the bytes put on the wire and the error), a
\* frame read (the error readMessage returns, on success the data, and the
\* number of bytes the bufio.Reader holds behind the frame when the read
\* returns), a SetBaudRate (the rate)
EvW(f, e) == [k |-> "W", f |-> f, e |-> e, v |-> 0]
EvR(f, e, n) == [k |-> "R", f |-> IF e = "nil" THEN f ELSE <<>>, e |-> e, v |-> n]
EvB(v) == [k |-> "B", f |-> <<>>, e |-> "nil", v |-> v]
\* the bytes ReadByte and ReadBytes took from the transport behind a frame
EvD(f, e) == [k |-> "D", f |-> f, e |-> e, v |-> 0]

Log(m, ev) ==
    [m EXCEPT !.io = Append(@, ev),
              !.sent = IF ev.k = "W" /\ ev.e = "nil" THEN ev.f
                       ELSE IF ev.k \in {"R", "D"} THEN <<>>
                       ELSE @]

\* the public operation returns: block and id are <<>> (nil) or <<value>>
Finish(m, err, block, id) ==
    [m EXCEPT !.pc = "done",
              !.res = [op |-> m.ctx.op, err |-> err, block |-> block, id |-> id]]

\* a nil-interface method call or an out-of-range slice
Panic(m) == Finish(m, "panic", <<>>, <<>>)

\* func (t *TariffDevice) cmd, up to its first writeMessage
cmd(m, for, p) ==
    [m EXCEPT !.pc = "cmdWrite", !.ctx.cmdFor = for, !.ctx.p = p, !.ctx.i = 0]

\* isInProgrammingMode with the expiry test at <= instead of <
isInProgrammingModeStrict(m) ==
    IF m.identity = <<>> THEN FALSE
    ELSE LET to == IF m.IdleTimeout = 0 THEN defaultInactivityTo ELSE m.IdleTimeout
         IN  IF m.lastActivity + to <= now THEN FALSE
             ELSE m.programmingMode

\* isInProgrammingMode without the expiry test
isInProgrammingModeNoExpiry(m) ==
    IF m.identity = <<>> THEN FALSE ELSE m.programmingMode

\* func (t *TariffDevice) isInProgrammingMode: the value returned
isInProgrammingMode(m) ==
    IF m.identity = <<>> THEN FALSE
    ELSE LET to == IF m.IdleTimeout = 0 THEN defaultInactivityTo ELSE m.IdleTimeout
         IN  IF m.lastActivity + to < now THEN FALSE
             ELSE m.programmingMode

\* func (t *TariffDevice) isInProgrammingMode: the field it writes
coerceIdleTimeout(m) ==
    IF m.identity # <<>> /\ m.IdleTimeout = 0
    THEN [m EXCEPT !.IdleTimeout = defaultInactivityTo]
    ELSE m

\* Command, after the programming-mode test and entry: marshal and cmd()
CommandSend(m) ==
    LET r == CommandMarshal(m.ctx.cmd.Id, m.ctx.cmd.Payload)
    IN  IF r.err # "nil" THEN Finish(m, r.err, <<>>, <<>>)
        ELSE cmd(m, "command", r.data)

\* Command that drops the session when cmd() fails
CommandAfterCmdDrop(m, data, err) ==
    IF err # "nil"
    THEN Finish([m EXCEPT !.identity = <<>>, !.programmingMode = FALSE], err, <<>>, <<>>)
    ELSE LET db == DataBlockUnmarshal(data)
         IN  IF db.err # "nil" THEN Finish(m, db.err, <<>>, <<>>)
             ELSE Finish(m, "nil", <<db.Lines>>, <<>>)

\* Command, after cmd() returned
CommandAfterCmd(m, data, err) ==
    IF err # "nil" THEN Finish(m, err, <<>>, <<>>)
    ELSE LET db == DataBlockUnmarshal(data)
         IN  IF db.err # "nil" THEN Finish(m, db.err, <<>>, <<>>)
             ELSE Finish(m, "nil", <<db.Lines>>, <<>>)

\* enterProgrammingMode whose error Command does not look at
epmReturnIgnored(m, err) == CommandSend(m)

\* enterProgrammingMode returns err to Command
epmReturn(m, err) ==
    IF err # "nil" THEN Finish(m, err, <<>>, <<>>)
    ELSE CommandSend(m)

\* Option returns (block, err) to its caller
OptionReturn(m, block, err) ==
    IF m.ctx.optFor = "EPM" THEN epmReturn(m, err)
    ELSE IF err # "nil" THEN Finish(m, err, <<>>, <<>>)
    ELSE Finish(m, "nil", block, <<>>)

\* passExchange returns err to Option or to enterProgrammingMode
passReturn(m, err) ==
    IF m.ctx.passFor = "Option" THEN OptionReturn(m, <<>>, err)
    ELSE epmReturn(m, err)

\* the password callback: the tests' callbacks answer a fixed value with P1;
\* 112 = 'p'
passCallback(ds) == [rv |-> [Address |-> <<>>, Value |-> <<112>>, Unit |-> <<>>],
                     id |-> pass]

\* passExchange that hands the decoded data-set to the callback as it is
passExchangeKeepAddress(m, for, p) ==
    LET m1 == [m EXCEPT !.ctx.passFor = for]
        r  == DataSetUnmarshal(p)
    IN  IF r.err = "panic" THEN Panic(m1)
        ELSE IF r.err # "nil" THEN passReturn(m1, r.err)
        ELSE IF pass = "nil"
        THEN passReturn([m1 EXCEPT !.programmingMode = TRUE], "nil")
        ELSE LET cb == passCallback(r.ds)
                 c  == CommandMarshal(cb.id, <<cb.rv>>)
                 m2 == [m1 EXCEPT !.ctx.cb = Append(@, r.ds)]
             IN  IF c.err # "nil" THEN passReturn(m2, c.err)
                 ELSE cmd(m2, "pass", c.data)

\* func (t *TariffDevice) passExchange, up to cmd(); ctx.cb keeps the arguments
\* t.pass was called with
passExchange(m, for, p) ==
    LET m1 == [m EXCEPT !.ctx.passFor = for]
        r  == DataSetUnmarshal(p)
    IN  IF r.err = "panic" THEN Panic(m1)
        ELSE IF r.err # "nil" THEN passReturn(m1, r.err)
        ELSE IF pass = "nil"
        THEN passReturn([m1 EXCEPT !.programmingMode = TRUE], "nil")
        ELSE LET ds == [r.ds EXCEPT !.Address = <<>>]
                 cb == passCallback(ds)
                 c  == CommandMarshal(cb.id, <<cb.rv>>)
                 m2 == [m1 EXCEPT !.ctx.cb = Append(@, ds)]
             IN  IF c.err # "nil" THEN passReturn(m2, c.err)
                 ELSE cmd(m2, "pass", c.data)

\* func (t *TariffDevice) passExchange, after cmd() returned; 66 48 = "B0"
passAfterCmd(m, data, err) ==
    IF err # "nil"
    THEN passReturn(m, IF err = "ErrNAK" THEN "ErrInvalidPassword" ELSE err)
    ELSE IF data[1] = ack
    THEN passReturn([m EXCEPT !.programmingMode = TRUE], "nil")
    ELSE IF data[1] = 66 /\ data[2] = 48
    THEN passReturn(m, "device sent break")
    ELSE LET r == DataSetUnmarshal(data)
         IN  IF r.err = "panic" THEN Panic(m)
             ELSE IF r.err # "nil" THEN passReturn(m, r.err)
             ELSE IF r.ds.Value # <<>>
             THEN passReturn([m EXCEPT !.ctx.text = r.ds.Value], "device error")
             ELSE passReturn(m, "ErrInvalidPassword")

\* Option without its test of the identity's mode
OptionBodyAnyMode(m) ==
    IF m.identity = <<>> THEN Panic(m)
    ELSE [m EXCEPT !.ctx.o.bri = m.identity[1].bri,
                   !.ctx.p = OptionMarshal([m.ctx.o EXCEPT !.bri = m.identity[1].bri]),
                   !.programmingMode = FALSE,
                   !.pc = "optWrite"]

\* func (t *TariffDevice) Option, after the optional handShake and up to its
\* writeMessage; t.identity.Mode on a nil identity is a nil dereference
OptionBody(m) ==
    IF m.identity = <<>> THEN Panic(m)
    ELSE IF m.identity[1].Mode # ModeC
    THEN OptionReturn(m, <<>>, "Option selection is available for Mode C only")
    ELSE [m EXCEPT !.ctx.o.bri = m.identity[1].bri,
                   !.ctx.p = OptionMarshal([m.ctx.o EXCEPT !.bri = m.identity[1].bri]),
                   !.programmingMode = FALSE,
                   !.pc = "optWrite"]

\* Option called with skipHandShake by ReadOut and enterProgrammingMode
OptionSkip(m, o, for) == OptionBody([m EXCEPT !.ctx.o = o, !.ctx.optFor = for])

\* func (t *TariffDevice) Option, after its writeMessage
OptionAfterWrite(m, err) ==
    IF err # "nil" THEN OptionReturn(m, <<>>, err)
    ELSE [Log(m, EvB(decodeBaudRate(m.identity[1].bri))) EXCEPT !.pc = "optRead"]

\* Option that takes any answered option-select for entry into programming mode
OptionAfterReadFlag(m, data, err) ==
    IF err # "nil" THEN OptionReturn(m, <<>>, err)
    ELSE LET m1 == [m EXCEPT !.lastActivity = now, !.programmingMode = TRUE]
         IN  IF m1.ctx.o.Option = ProgrammingMode
             THEN passExchange(m1, "Option", data)
             ELSE LET rv == DataBlockUnmarshal(data)
                  IN  IF rv.err # "nil" THEN OptionReturn(m1, <<>>, rv.err)
                      ELSE OptionReturn(m1, <<rv.Lines>>, "nil")

\* Option that sends its option-select once more when the meter answers NAK
OptionAfterReadRetry(m, data, err) ==
    IF err = "ErrNAK"
       /\ Cardinality({ j \in 1..Len(m.io) : m.io[j].k = "W" /\ m.io[j].f[1] = ack }) < 2
    THEN [m EXCEPT !.pc = "optWrite"]
    ELSE IF err # "nil" THEN OptionReturn(m, <<>>, err)
    ELSE LET m1 == [m EXCEPT !.lastActivity = now]
         IN  IF m1.ctx.o.Option = ProgrammingMode
             THEN passExchange(m1, "Option", data)
             ELSE LET rv == DataBlockUnmarshal(data)
                  IN  IF rv.err # "nil" THEN OptionReturn(m1, <<>>, rv.err)
                      ELSE OptionReturn(m1, <<rv.Lines>>, "nil")

\* func (t *TariffDevice) Option, after its readMessage
OptionAfterRead(m, data, err) ==
    IF err # "nil" THEN OptionReturn(m, <<>>, err)
    ELSE LET m1 == [m EXCEPT !.lastActivity = now]
         IN  IF m1.ctx.o.Option = ProgrammingMode
             THEN passExchange(m1, "Option", data)
             ELSE LET rv == DataBlockUnmarshal(data)
                  IN  IF rv.err # "nil" THEN OptionReturn(m1, <<>>, rv.err)
                      ELSE OptionReturn(m1, <<rv.Lines>>, "nil")

\* handShake returns (block, err) to Identity, ReadOut, Option or
\* enterProgrammingMode, which run on to their next transport call
hsReturn(m, block, err) ==
    CASE m.ctx.hsFor = "Identity" ->
            IF err # "nil" THEN Finish(m, err, <<>>, <<>>)
            ELSE Finish(m, "nil", <<>>, m.identity)
      [] m.ctx.hsFor = "ReadOut" ->
            IF err # "nil" THEN Finish(m, err, <<>>, <<>>)
            ELSE IF m.identity[1].Mode # ModeC THEN Finish(m, "nil", block, <<>>)
            ELSE OptionSkip(m, [Option |-> DataReadOut, PCC |-> NormalPCC, bri |-> 0,
                                skipHandShake |-> TRUE], "ReadOut")
      [] m.ctx.hsFor = "Option" ->
            IF err # "nil" THEN Finish(m, err, <<>>, <<>>)
            ELSE OptionBody(m)
      [] OTHER ->  \* enterProgrammingMode
            IF err # "nil" THEN epmReturn(m, err)
            ELSE IF m.identity[1].Mode = ModeC
            THEN OptionSkip(m, [Option |-> ProgrammingMode, PCC |-> NormalPCC,
                                bri |-> m.identity[1].bri, skipHandShake |-> TRUE], "EPM")
            ELSE IF pass = "nil" \/ m.identity[1].Mode # ModeB
            THEN epmReturn(m, "nil")
            ELSE passExchange(m, "EPM", DataSetMarshal(EmptyDataSet))

\* func (t *TariffDevice) handShake, from the start up to cmd(); SetBaudRate on
\* a nil connection is a nil dereference
handShake(m, for) ==
    LET m1 == [m EXCEPT !.identity = <<>>, !.programmingMode = FALSE, !.ctx.hsFor = for]
    IN  IF ~connection THEN Panic(m1)
        ELSE cmd(Log(m1, EvB(300)), "hs", RequestMarshal(address))

\* handShake that sets the programming flag for Mode C as well
handShakeAfterCmdFlagC(m, data, err) ==
    IF err # "nil" THEN hsReturn(m, <<>>, err)
    ELSE LET r == IdentityUnmarshal(data)
         IN  IF r.err = "panic" THEN Panic(m)
             ELSE IF r.err # "nil" THEN hsReturn(m, <<>>, r.err)
             ELSE IF r.id.Mode = ModeC
             THEN hsReturn([m EXCEPT !.identity = <<r.id>>, !.programmingMode = TRUE],
                           <<>>, "nil")
             ELSE LET m1 == [m EXCEPT !.ctx.id = r.id, !.pc = "hsRead"]
                  IN  IF r.id.Mode = ModeB
                      THEN Log(m1, EvB(decodeBaudRate(r.id.bri)))
                      ELSE m1

\* func (t *TariffDevice) handShake, after cmd() returned
handShakeAfterCmd(m, data, err) ==
    IF err # "nil" THEN hsReturn(m, <<>>, err)
    ELSE LET r == IdentityUnmarshal(data)
         IN  IF r.err = "panic" THEN Panic(m)
             ELSE IF r.err # "nil" THEN hsReturn(m, <<>>, r.err)
             ELSE IF r.id.Mode = ModeC
             THEN hsReturn([m EXCEPT !.identity = <<r.id>>], <<>>, "nil")
             ELSE LET m1 == [m EXCEPT !.ctx.id = r.id, !.pc = "hsRead"]
                  IN  IF r.id.Mode = ModeB
                      THEN Log(m1, EvB(decodeBaudRate(r.id.bri)))
                      ELSE m1

\* handShake that sets the programming flag but not lastActivity
handShakeAfterReadNoStamp(m, data, err) ==
    IF err # "nil" THEN hsReturn(m, <<>>, err)
    ELSE LET m1 == IF m.ctx.id.Mode = ModeB THEN Log(m, EvB(300)) ELSE m
             m2 == [m1 EXCEPT !.programmingMode = TRUE]
             b  == DataBlockUnmarshal(data)
         IN  IF b.err # "nil" THEN hsReturn(m2, <<>>, b.err)
             ELSE hsReturn([m2 EXCEPT !.identity = <<m.ctx.id>>], <<b.Lines>>, "nil")

\* handShake that leaves the adapter at the rate of the data block
handShakeAfterReadKeepRate(m, data, err) ==
    IF err # "nil" THEN hsReturn(m, <<>>, err)
    ELSE LET m2 == [m EXCEPT !.lastActivity = now, !.programmingMode = TRUE]
             b  == DataBlockUnmarshal(data)
         IN  IF b.err # "nil" THEN hsReturn(m2, <<>>, b.err)
             ELSE hsReturn([m2 EXCEPT !.identity = <<m.ctx.id>>], <<b.Lines>>, "nil")

\* func (t *TariffDevice) handShake, after the readMessage of the data block
handShakeAfterRead(m, data, err) ==
    IF err # "nil" THEN hsReturn(m, <<>>, err)
    ELSE LET m1 == IF m.ctx.id.Mode = ModeB THEN Log(m, EvB(300)) ELSE m
             m2 == [m1 EXCEPT !.lastActivity = now, !.programmingMode = TRUE]
             b  == DataBlockUnmarshal(data)
         IN  IF b.err # "nil" THEN hsReturn(m2, <<>>, b.err)
             ELSE hsReturn([m2 EXCEPT !.identity = <<m.ctx.id>>], <<b.Lines>>, "nil")

\* cmd() returns (data, err) to handShake, passExchange or Command
cmdReturn(m, data, err) ==
    CASE m.ctx.cmdFor = "hs" -> handShakeAfterCmd(m, data, err)
      [] m.ctx.cmdFor = "pass" -> passAfterCmd(m, data, err)
      [] OTHER -> CommandAfterCmd(m, data, err)

\* cmd() that writes its frame twice before it reads
cmdAfterWriteTwice(m, err) ==
    IF err # "nil" THEN cmdReturn(m, <<>>, err)
    ELSE IF m.ctx.i = 0 THEN [m EXCEPT !.ctx.i = 1, !.pc = "cmdWrite"]
    ELSE [m EXCEPT !.pc = "cmdRead"]

\* func (t *TariffDevice) cmd, after writeMessage
cmdAfterWrite(m, err) ==
    IF err # "nil" THEN cmdReturn(m, <<>>, err)
    ELSE [m EXCEPT !.pc = "cmdRead"]

\* cmd() whose loop runs once more (i <= 5)
cmdAfterReadSixth(m, data, err) ==
    IF err = "nil" THEN cmdReturn([m EXCEPT !.lastActivity = now], data, "nil")
    ELSE IF err = "ErrNAK"
    THEN IF m.ctx.i + 1 < MaxAttempts + 1
         THEN [m EXCEPT !.ctx.i = @ + 1, !.pc = "cmdWrite"]
         ELSE cmdReturn(m, <<>>, "ErrNAK")
    ELSE cmdReturn(m, <<>>, err)

\* cmd() that retries after every failed read, not only after a NAK
cmdAfterReadRetryAll(m, data, err) ==
    IF err = "nil" THEN cmdReturn([m EXCEPT !.lastActivity = now], data, "nil")
    ELSE IF m.ctx.i + 1 < MaxAttempts
    THEN [m EXCEPT !.ctx.i = @ + 1, !.pc = "cmdWrite"]
    ELSE cmdReturn(m, <<>>, err)

\* func (t *TariffDevice) cmd, after readMessage: the loop's continue, i++ and
\* cmd() with twice the attempts
cmdAfterReadTwiceAsLong(m, data, err) ==
    IF err = "nil" THEN cmdReturn([m EXCEPT !.lastActivity = now], data, "nil")
    ELSE IF err = "ErrNAK"
    THEN IF m.ctx.i + 1 < 2 * MaxAttempts
         THEN [m EXCEPT !.ctx.i = @ + 1, !.pc = "cmdWrite"]
         ELSE cmdReturn(m, <<>>, "ErrNAK")
    ELSE cmdReturn(m, <<>>, err)

\* i < 5 test
cmdAfterRead(m, data, err) ==
    IF err = "nil" THEN cmdReturn([m EXCEPT !.lastActivity = now], data, "nil")
    ELSE IF err = "ErrNAK"
    THEN IF m.ctx.i + 1 < MaxAttempts
         THEN [m EXCEPT !.ctx.i = @ + 1, !.pc = "cmdWrite"]
         ELSE cmdReturn(m, <<>>, "ErrNAK")
    ELSE cmdReturn(m, <<>>, err)

----------------------------------------------------------------------------
\* The meter and the transport

MaxNow == 120

\* a data or command frame as the meter sends it: head, body, ETX, BCC
Frame(head, body) == <<head>> \o body \o <<etx, bcc(body \o <<etx>>)>>

\* "/iek6t\r\n", "/iekXt\r\n", "/iekEt\r\n": identifications of a Mode C, a
\* Mode A and a Mode B meter
identC == <<start, 105, 101, 107, 54, 116, cr, lf>>
identA == <<start, 105, 101, 107, 88, 116, cr, lf>>
identB == <<start, 105, 101, 107, 69, 116, cr, lf>>
\* STX "D(V)!\r\n" ETX BCC
blockOK == Frame(stx, <<68, fb, 86, rb, end, cr, lf>>)
\* the same block with a wrong BCC
blockBadBCC == <<stx, 68, fb, 86, rb, end, cr, lf, etx, 0>>
\* Mode D: "/ekt3i\r\n" and "\r\nA(V)!\r\n"
identD == <<start, 101, 107, 116, 51, 105, cr, lf>>
bodyD == <<cr, lf, 65, fb, 86, rb, end, cr, lf>>

\* SOH "P0" STX "(1)" ETX BCC: the operand a meter sends for an option-select
\* of programming mode
operandP0 == Frame(soh, <<80, 48, stx, fb, 49, rb>>)
\* SOH "P0" STX "(1*V)" ETX BCC: an operand with a unit
operandUnit == Frame(soh, <<80, 48, stx, fb, 49, star, 86, rb>>)
\* STX "X)" ETX BCC: a frame whose body has no front boundary
blockNoFront == Frame(stx, <<88, rb>>)
\* STX "(E)" ETX BCC: an error message; STX "()" ETX BCC
errorMsg == Frame(stx, <<fb, 69, rb>>)
emptySet == Frame(stx, <<fb, rb>>)
\* STX ")(" ETX BCC: a frame whose rear boundary stands before the front one
blockRearFirst == Frame(stx, <<rb, fb>>)

\* What the meter may have sent by the time a read ends, by the read that is
\* waiting: nothing, a NAK, a byte that opens no frame, the frames a meter
\* answers there (well formed, with a wrong BCC, undecodable), and frames
\* sent back to back.
PeerSends ==
    CASE pc = "cmdRead" /\ ctx.cmdFor = "hs" ->
           { <<>>, <<nak>>, <<65>>, identC, identA, identB,
             <<start, 97, lf>>,           \* "/a\n": a too short identification
             <<start, 97, 98, 54, lf>>,   \* "/ab6\n": four bytes after '/'
             identA \o blockOK }
      [] pc = "cmdRead" /\ ctx.cmdFor = "pass" ->
           { <<>>, <<nak>>, <<65>>, <<ack>>, breakMsg \o <<bcc(Tail(breakMsg))>>,
             errorMsg, emptySet, blockNoFront, blockRearFirst }
      [] pc = "cmdRead" /\ ctx.cmdFor = "command" ->
           { <<>>, <<nak>>, <<65>>, blockOK, blockBadBCC, blockNoFront, errorMsg }
      [] pc = "hsRead" ->
           { <<>>, <<nak>>, blockOK, blockBadBCC, blockNoFront }
      [] pc = "optRead" ->
           { <<>>, <<nak>>, <<65>>, blockOK, blockBadBCC, blockNoFront, operandP0,
             operandUnit }
      [] pc = "dRead" ->
           { <<>>, <<nak>>, <<start, 97, lf>>, identD, identD \o bodyD,
             identD \o blockOK }
      [] OTHER -> { <<>> }

\* The meter sends when nothing of what it sent before is still in the socket.
Arrivals == IF sock = <<>> THEN PeerSends ELSE { <<>> }

\* How many of the n bytes behind a frame the bufio.Reader has pulled into its
\* buffer with the frame.  A fill takes all that is in the socket, so bytes
\* that were there before the read are all pulled; of bytes that arrive during
\* the read, those that come after the reader's last fill stay in the socket
\* (none, one or all of them are taken here).
ChunkCuts(n) == IF sock = <<>> THEN {0, 1, n} \cap (0..n) ELSE {n}

\* One frame read.  PrepareRead resets the bufio.Reader, so nothing a former
\* read left buffered is seen: held counts the bytes this read leaves there.  The
\* frame is parsed from what is in the socket and what arrives (resp); of the
\* bytes behind the frame k are pulled into the reader's buffer together with
\* the frame.
Recv(resp) ==
    LET s    == sock \o resp
        pr   == ParseFrame(s)
        rest == Slice(s, pr.n, Len(s))
    IN  { [data |-> pr.data, err |-> pr.err,
           held |-> k, sock |-> Slice(rest, k, Len(rest))] :
          k \in ChunkCuts(Len(rest)) }

\* func readMessage: every outcome the transport and the meter allow
readMessage ==
    IF ~connection
    THEN { [data |-> <<>>, err |-> "ErrNoConnection", held |-> 0, sock |-> sock] }
    ELSE { [data |-> <<>>, err |-> "ioerr", held |-> 0, sock |-> sock] }
         \cup UNION { Recv(resp) : resp \in Arrivals }

\* func ImmediateDreadOut, the reads that follow the identification: ReadByte
\* twice, ReadBytes('!'), ReadBytes('\n'), on the bytes s behind the frame
bodyRead(s) ==
    IF s = <<>> \/ s[1] # cr
    THEN [err |-> "ErrInvalidFrame", data |-> <<>>, n |-> IF s = <<>> THEN 0 ELSE 1]
    ELSE IF Len(s) < 2 \/ s[2] # lf
    THEN [err |-> "ErrInvalidFrame", data |-> <<>>, n |-> IF Len(s) < 2 THEN 1 ELSE 2]
    ELSE LET s2 == Slice(s, 2, Len(s))
             i  == IndexByte(s2, end)
             s3 == Slice(s2, i + 1, Len(s2))
             j  == IndexByte(s3, lf)
         IN  IF i = -1 THEN [err |-> "timeout", data |-> <<>>, n |-> Len(s)]
             ELSE IF j = -1 THEN [err |-> "timeout", data |-> <<>>, n |-> Len(s)]
             ELSE [err |-> "nil", data |-> Slice(s2, 0, i + 1), n |-> 2 + i + 1 + j + 1]

\* ImmediateDreadOut that caches the identity as soon as it is decoded
ImmediateDreadOutReadEarly(m, data, err, body) ==
    IF err # "nil" THEN Finish(m, err, <<>>, <<>>)
    ELSE LET r == IdentityUnmarshal(data)
         IN  IF r.err = "panic" THEN Panic(m)
             ELSE IF r.err # "nil" THEN Finish(m, r.err, <<>>, <<>>)
             ELSE LET id == [r.id EXCEPT !.Mode = ModeD]
                      m1 == [m EXCEPT !.identity = <<id>>]
                      bb == DataBlockUnmarshal(body.data)
                  IN  IF body.err # "nil" THEN Finish(m1, body.err, <<>>, <<>>)
                      ELSE IF bb.err # "nil" THEN Finish(m1, bb.err, <<>>, <<>>)
                      ELSE Finish(m1, "nil", <<bb.Lines>>, <<id>>)

\* func ImmediateDreadOut, from readMessage to the end
ImmediateDreadOutRead(m, data, err, body) ==
    IF err # "nil" THEN Finish(m, err, <<>>, <<>>)
    ELSE LET r == IdentityUnmarshal(data)
         IN  IF r.err = "panic" THEN Panic(m)
             ELSE IF r.err # "nil" THEN Finish(m, r.err, <<>>, <<>>)
             ELSE IF body.err # "nil" THEN Finish(m, body.err, <<>>, <<>>)
             ELSE LET id == [r.id EXCEPT !.Mode = ModeD]
                      bb == DataBlockUnmarshal(body.data)
                  IN  IF bb.err # "nil" THEN Finish(m, bb.err, <<>>, <<>>)
                      ELSE Finish([m EXCEPT !.identity = <<id>>], "nil",
                                  <<bb.Lines>>, <<id>>)

----------------------------------------------------------------------------
\* The callers' inputs

Addresses == { <<>> }
PassFuncs == { "nil", "P1" }
IdleTimeouts == { 0, 60, defaultInactivityTo }
TickSteps == { 60 }

\* OptionSelectMessage values a caller can build (bri and skipHandShake are
\* unexported)
OptionArgs ==
    { [Option |-> opt, PCC |-> NormalPCC, bri |-> 0, skipHandShake |-> FALSE] :
        opt \in {DataReadOut, ProgrammingMode, Option6} }
    \cup { [Option |-> DataReadOut, PCC |-> SecondaryPCC, bri |-> 0,
            skipHandShake |-> FALSE] }

\* Command values: R1 with the data-set "A()", a break, an id outside the table
CommandArgs ==
    { [Id |-> "R1", Payload |-> << [Address |-> <<65>>, Value |-> <<>>, Unit |-> <<>>] >>],
      [Id |-> CmdB0, Payload |-> <<>>],
      [Id |-> "X9", Payload |-> <<>>] }

----------------------------------------------------------------------------
\* Initial state: WithPassword(conn, address, passCallback)

SessionInit ==
    /\ connection \in BOOLEAN
    /\ address \in Addresses
    /\ pass \in PassFuncs
    /\ IdleTimeout = defaultInactivityTo
    /\ programmingMode = FALSE
    /\ lastActivity = ZeroTime
    /\ identity = <<>>
    /\ now = 0
    /\ sock = <<>>
    /\ pc = "idle"
    /\ ctx = Ctx0("")
    /\ io = <<>>
    /\ res = NoRes
    /\ sent = <<>>

\* beside the session no tcpConn and no codec call is under test
NoCall == [fn |-> "", arg |-> <<>>, data |-> <<>>, err |-> "nil", wire |-> <<>>]
NoConn == [logging |-> FALSE, lbuf |-> <<>>, flog |-> <<>>, call |-> NoCall, n |-> 0]
NoCodec == [fn |-> "", in |-> <<>>, out |-> <<>>]

Init ==
    /\ SessionInit
    /\ tc = NoConn
    /\ codec = NoCodec

\* a public operation is entered with fresh locals and an empty transport log;
\* pre keeps whether an identity was cached and the flag set when it was called
Enter(op) ==
    [Cur EXCEPT !.ctx = [Ctx0(op) EXCEPT !.pre = [id |-> identity # <<>>,
                                                  pm |-> programmingMode]],
                !.io = <<>>, !.res = NoRes]

\* the caller is done with the result of the operation and may call the next
Return ==
    /\ pc = "done"
    /\ pc' = "idle"
    /\ ctx' = Ctx0("")
    /\ io' = <<>>
    /\ res' = NoRes
    /\ UNCHANGED <<Harness, connection, address, pass, IdleTimeout, programmingMode,
                   lastActivity, identity, now, sock, sent>>

Session == <<connection, address, pass>>

----------------------------------------------------------------------------
\* Public operations, up to their first transport call

\* Identity that handshakes whether or not an identity is cached
IdentityAfresh ==
    /\ pc = "idle"
    /\ Set(handShake(Enter("Identity"), "Identity"))
    /\ UNCHANGED <<Harness, Session, now, sock>>

\* func (t *TariffDevice) Identity
Identity ==
    /\ pc = "idle"
    /\ Set(IF identity # <<>>
           THEN Finish(Enter("Identity"), "nil", <<>>, identity)
           ELSE handShake(Enter("Identity"), "Identity"))
    /\ UNCHANGED <<Harness, Session, now, sock>>

\* func (t *TariffDevice) ReadOut
ReadOut ==
    /\ pc = "idle"
    /\ Set(handShake(Enter("ReadOut"), "ReadOut"))
    /\ UNCHANGED <<Harness, Session, now, sock>>

\* func (t *TariffDevice) Option
Option(o) ==
    /\ pc = "idle"
    /\ Set(handShake([Enter("Option") EXCEPT !.ctx.o = o, !.ctx.optFor = "Option"],
                     "Option"))
    /\ UNCHANGED <<Harness, Session, now, sock>>

\* func (t *TariffDevice) SendBreak, up to writeMessage
SendBreakStart(m) == [m EXCEPT !.pc = "breakWrite", !.ctx.p = breakMsg]

\* Command as in the revision of src/tariff_device.go: outside programming
\* mode a B0 returns at once and nothing is sent
CommandEarlier(c) ==
    /\ pc = "idle"
    /\ LET m0 == [Enter("Command") EXCEPT !.ctx.cmd = c]
           m1 == [coerceIdleTimeout(m0) EXCEPT
                     !.ctx.ipm = IF isInProgrammingMode(m0) THEN "true" ELSE "false"]
       IN  Set(IF ~isInProgrammingMode(m0)
               THEN IF c.Id = CmdB0 THEN Finish(m1, "nil", <<>>, <<>>)
                    ELSE handShake(m1, "EPM")
               ELSE IF c.Id = CmdB0 THEN SendBreakStart(m1)
               ELSE CommandSend(m1))
    /\ UNCHANGED <<Harness, Session, now, sock>>

\* Command whose programming-mode entry skips the handshake when an identity
\* is cached
CommandCachedIdentity(c) ==
    /\ pc = "idle"
    /\ LET m0 == [Enter("Command") EXCEPT !.ctx.cmd = c]
           m1 == [coerceIdleTimeout(m0) EXCEPT
                     !.ctx.ipm = IF isInProgrammingMode(m0) THEN "true" ELSE "false"]
       IN  Set(IF c.Id = CmdB0 THEN SendBreakStart(m0)
               ELSE IF ~isInProgrammingMode(m0)
               THEN IF m1.identity # <<>>
                    THEN hsReturn([m1 EXCEPT !.ctx.hsFor = "EPM"], <<>>, "nil")
                    ELSE handShake(m1, "EPM")
               ELSE CommandSend(m1))
    /\ UNCHANGED <<Harness, Session, now, sock>>

\* func (t *TariffDevice) Command
Command(c) ==
    /\ pc = "idle"
    /\ LET m0 == [Enter("Command") EXCEPT !.ctx.cmd = c]
           m1 == [coerceIdleTimeout(m0) EXCEPT
                     !.ctx.ipm = IF isInProgrammingMode(m0) THEN "true" ELSE "false"]
       IN  Set(IF c.Id = CmdB0 THEN SendBreakStart(m0)
               ELSE IF ~isInProgrammingMode(m0) THEN handShake(m1, "EPM")
               ELSE CommandSend(m1))
    /\ UNCHANGED <<Harness, Session, now, sock>>

\* func (t *TariffDevice) SendBreak
SendBreak ==
    /\ pc = "idle"
    /\ Set(SendBreakStart(Enter("SendBreak")))
    /\ UNCHANGED <<Harness, Session, now, sock>>

\* func (t *TariffDevice) ImmediateDreadOut, up to readMessage
ImmediateDreadOut ==
    /\ pc = "idle"
    /\ Set(IF ~connection THEN Panic(Enter("ImmediateDreadOut"))
           ELSE [Log(Enter("ImmediateDreadOut"), EvB(2400)) EXCEPT !.pc = "dRead"])
    /\ UNCHANGED <<Harness, Session, now, sock>>

\* func (t *TariffDevice) DropProgrammingMode
DropProgrammingMode ==
    /\ pc = "idle"
    /\ programmingMode' = FALSE
    /\ identity' = <<>>
    /\ UNCHANGED <<Harness, Session, IdleTimeout, lastActivity, now, sock, pc, ctx, io, res,
                   sent>>

\* func (t *TariffDevice) Reset: a new transport, nothing received on it
Reset(conn) ==
    /\ pc = "idle"
    /\ connection' = conn
    /\ programmingMode' = FALSE
    /\ identity' = <<>>
    /\ sock' = <<>>
    /\ sent' = <<>>
    /\ UNCHANGED <<Harness, address, pass, IdleTimeout, lastActivity, now, pc, ctx, io, res>>

\* the caller assigns the exported field IdleTimeout
SetIdleTimeout(v) ==
    /\ pc = "idle"
    /\ IdleTimeout # v
    /\ IdleTimeout' = v
    /\ UNCHANGED <<Harness, Session, programmingMode, lastActivity, identity, now, sock,
                   pc, ctx, io, res, sent>>

----------------------------------------------------------------------------
\* Transport calls

\* cmd(): writeMessage(t.connection, p)
CmdWrite ==
    /\ pc = "cmdWrite"
    /\ \E e \in {"nil", "ioerr"} :
          LET err == WriteErr(ctx.p, e)
          IN  Set(cmdAfterWrite(Log(Cur, EvW(WireFrame(ctx.p), err)), err))
    /\ UNCHANGED <<Harness, Session, now, sock>>

\* cmd(): readMessage(t.connection)
CmdRead ==
    /\ pc = "cmdRead"
    /\ \E r \in readMessage :
          /\ Set(cmdAfterRead(Log(Cur, EvR(r.data, r.err, r.held)), r.data, r.err))
          /\ sock' = r.sock
    /\ UNCHANGED <<Harness, Session, now>>

\* handShake(): readMessage(t.connection) for the data block of Mode A and B
HandShakeRead ==
    /\ pc = "hsRead"
    /\ \E r \in readMessage :
          /\ Set(handShakeAfterRead(Log(Cur, EvR(r.data, r.err, r.held)), r.data, r.err))
          /\ sock' = r.sock
    /\ UNCHANGED <<Harness, Session, now>>

\* Option(): writeMessage(t.connection, data)
OptionWrite ==
    /\ pc = "optWrite"
    /\ \E e \in {"nil", "ioerr"} :
          LET err == WriteErr(ctx.p, e)
          IN  Set(OptionAfterWrite(Log(Cur, EvW(WireFrame(ctx.p), err)), err))
    /\ UNCHANGED <<Harness, Session, now, sock>>

\* Option(): readMessage(t.connection)
OptionRead ==
    /\ pc = "optRead"
    /\ \E r \in readMessage :
          /\ Set(OptionAfterRead(Log(Cur, EvR(r.data, r.err, r.held)), r.data, r.err))
          /\ sock' = r.sock
    /\ UNCHANGED <<Harness, Session, now>>

\* SendBreak that forgets the session only when the break went out
SendBreakAfterWriteOK(m, err) ==
    IF err # "nil" THEN Finish(m, err, <<>>, <<>>)
    ELSE Finish([m EXCEPT !.identity = <<>>, !.programmingMode = FALSE], err, <<>>, <<>>)

\* func (t *TariffDevice) SendBreak, writeMessage and after; a nil connection
\* makes writeMessage return before anything is written
SendBreakAfterWrite(m, err) ==
    Finish([m EXCEPT !.identity = <<>>, !.programmingMode = FALSE], err, <<>>, <<>>)

BreakWrite ==
    /\ pc = "breakWrite"
    /\ \E e \in {"nil", "ioerr"} :
          LET err == WriteErr(ctx.p, e)
          IN  Set(SendBreakAfterWrite(
                    IF connection THEN Log(Cur, EvW(WireFrame(ctx.p), err)) ELSE Cur, err))
    /\ UNCHANGED <<Harness, Session, now, sock>>

\* ImmediateDreadOut(): readMessage and the four reads behind it
ImmediateRead ==
    /\ pc = "dRead"
    /\ \/ /\ Set(ImmediateDreadOutRead(Log(Cur, EvR(<<>>, "ioerr", 0)), <<>>, "ioerr",
                                       bodyRead(<<>>)))
          /\ sock' = sock
       \/ \E resp \in Arrivals :
             LET s    == sock \o resp
                 pr   == ParseFrame(s)
                 rest == Slice(s, pr.n, Len(s))
                 idOK == pr.err = "nil" /\ IdentityUnmarshal(pr.data).err = "nil"
                 body == IF idOK THEN bodyRead(rest)
                         ELSE [err |-> "nil", data |-> <<>>, n |-> 0]
                 left == Slice(rest, body.n, Len(rest))
             IN  \E k \in ChunkCuts(Len(left)) :
                    /\ LET m1 == Log(Cur, EvR(pr.data, pr.err, k))
                           m2 == IF idOK THEN Log(m1, EvD(Slice(rest, 0, body.n), body.err))
                                 ELSE m1
                       IN  Set(ImmediateDreadOutRead(m2, pr.data, pr.err, body))
                    /\ sock' = Slice(left, k, Len(left))
    /\ UNCHANGED <<Harness, Session, now>>

\* time passes
Tick ==
    /\ pc # "done"
    /\ \E d \in TickSteps :
          /\ now + d <= MaxNow
          /\ now' = now + d
    /\ UNCHANGED <<Harness, Session, IdleTimeout, programmingMode, lastActivity, identity,
                   sock, pc, ctx, io, res, sent>>

Next ==
    \/ Identity
    \/ ReadOut
    \/ \E o \in OptionArgs : Option(o)
    \/ \E c \in CommandArgs : Command(c)
    \/ SendBreak
    \/ ImmediateDreadOut
    \/ DropProgrammingMode
    \/ \E conn \in BOOLEAN : Reset(conn)
    \/ \E v \in IdleTimeouts : SetIdleTimeout(v)
    \/ CmdWrite
    \/ CmdRead
    \/ HandShakeRead
    \/ OptionWrite
    \/ OptionRead
    \/ BreakWrite
    \/ ImmediateRead
    \/ Return
    \/ Tick

Spec == Init /\ [][Next]_vars

----------------------------------------------------------------------------
\* Framed I/O on a tcpConn (src/io_test.go writeMessage and readMessage,
\* src/unnamed/part_001 tcpConn, logger, reader, writer).  The reader and the
\* writer of one tcpConn share one logger and so one buffer lbuf; flog is what
\* the logger has printed, one record per Println.

MaxCalls == 3

\* func newConn
newConn(logging) == [NoConn EXCEPT !.logging = logging]

\* reader.reset and writer.reset: the logger's buffer is emptied
loggerReset(c) == [c EXCEPT !.lbuf = <<>>]

\* reader.ReadByte, reader.ReadBytes, writer.Write, writer.WriteByte: what was
\* read or written without error is appended when a log.Logger is set
loggerAppend(c, bytes) == IF c.logging THEN [c EXCEPT !.lbuf = @ \o bytes] ELSE c

\* func (l *logger) log: prints the buffer under the prefix, then empties it
loggerLog(c, prefix) ==
    [c EXCEPT !.flog = IF c.logging THEN Append(@, [prefix |-> prefix, bytes |-> c.lbuf])
                       ELSE @,
              !.lbuf = <<>>]

\* where a transport call of writeMessage may fail
WriteFails(data) ==
    IF Len(data) = 0 THEN { "none" }
    ELSE { "none", "prepare", "write", "flush" }
         \cup (IF WireSuffix(data) # <<>> THEN { "suffix" } ELSE {})

\* func writeMessage on a tcpConn; fail names the transport call that fails
writeMessage(c, data, fail) ==
    LET ret(c0, err, wire) ==
            [c0 EXCEPT !.call = [fn |-> "writeMessage", arg |-> data, data |-> <<>>,
                                 err |-> err, wire |-> wire]]
        c1 == loggerReset(c)
        c2 == loggerAppend(c1, data)
        c3 == loggerAppend(c2, WireSuffix(data))
    IN  IF Len(data) = 0 THEN ret(c, "nil", <<>>)
        ELSE IF fail = "prepare" THEN ret(c1, "ioerr", <<>>)
        ELSE IF fail = "write" THEN ret(c1, "ioerr", <<>>)
        ELSE IF fail = "suffix" THEN ret(c2, "ioerr", <<>>)
        ELSE IF fail = "flush" THEN ret(c3, "ioerr", <<>>)
        ELSE ret(loggerLog(c3, "request"), "nil", WireFrame(data))

\* the bytes readMessage has read without error from the arrived bytes s, pr
\* being ParseFrame(s): a read that times out has appended nothing
readLogged(s, pr) ==
    IF pr.err # "timeout" THEN Slice(s, 0, pr.n)
    ELSE IF s = <<>> THEN <<>>
    ELSE LET body == Tail(s)
             i == IndexByte(body, IF s[1] = start THEN lf ELSE etx)
         IN  IF i = -1 THEN <<s[1]>> ELSE Slice(s, 0, i + 2)

\* PrepareRead that leaves the logger's buffer as it is
readMessageOnNoReset(c, s, fail) ==
    LET ret(c0, data, err) ==
            [c0 EXCEPT !.call = [fn |-> "readMessage", arg |-> s, data |-> data,
                                 err |-> err, wire |-> <<>>]]
        pr == ParseFrame(s)
        c2 == loggerAppend(c, readLogged(s, pr))
    IN  IF fail = "prepare" THEN ret(c, <<>>, "ioerr")
        ELSE IF pr.err # "nil" THEN ret(c2, pr.data, pr.err)
        ELSE ret(loggerLog(c2, "response"), pr.data, "nil")

\* func readMessage on a tcpConn at which the bytes s arrive before the deadline
readMessageOn(c, s, fail) ==
    LET ret(c0, data, err) ==
            [c0 EXCEPT !.call = [fn |-> "readMessage", arg |-> s, data |-> data,
                                 err |-> err, wire |-> <<>>]]
        c1 == loggerReset(c)
        pr == ParseFrame(s)
        c2 == loggerAppend(c1, readLogged(s, pr))
    IN  IF fail = "prepare" THEN ret(c1, <<>>, "ioerr")
        ELSE IF pr.err # "nil" THEN ret(c2, pr.data, pr.err)
        ELSE ret(loggerLog(c2, "response"), pr.data, "nil")

\* frames a caller writes: nothing, a break, a request, an option-select, and
\* a frame whose first byte takes no suffix
FrameArgs ==
    { <<>>, breakMsg, RequestMarshal(<<>>), <<ack, 48, 54, 48>>, <<stx, 65, etx>> }

\* what may arrive for a read
FrameInputs ==
    { <<>>, <<nak>>, <<ack>>, <<65>>, identC, blockOK, blockBadBCC,
      <<stx, 65>>, <<stx, 65, etx>>, <<start, 97>> }

FrameInit ==
    /\ SessionInit
    /\ connection
    /\ pass = "nil"
    /\ tc \in { newConn(l) : l \in BOOLEAN }
    /\ codec = NoCodec

\* a caller calls writeMessage(c, data)
FrameWrite ==
    /\ tc.n < MaxCalls
    /\ \E data \in FrameArgs : \E fail \in WriteFails(data) :
          tc' = writeMessage([tc EXCEPT !.n = @ + 1], data, fail)
    /\ UNCHANGED <<SessionVars, codec>>

\* a caller calls readMessage(c)
FrameRead ==
    /\ tc.n < MaxCalls
    /\ \E s \in FrameInputs : \E fail \in {"none", "prepare"} :
          tc' = readMessageOn([tc EXCEPT !.n = @ + 1], s, fail)
    /\ UNCHANGED <<SessionVars, codec>>

\* a caller reads one byte behind a frame with c.ReadByte(), as
\* ImmediateDreadOut does
FrameReadByte ==
    /\ tc.n < MaxCalls
    /\ tc.call.fn = "readMessage"
    /\ tc.call.err = "nil"
    /\ \E b \in {cr, 65} :
          tc' = [loggerAppend([tc EXCEPT !.n = @ + 1], <<b>>) EXCEPT
                    !.call = [fn |-> "ReadByte", arg |-> <<>>, data |-> <<b>>,
                              err |-> "nil", wire |-> <<>>]]
    /\ UNCHANGED <<SessionVars, codec>>

FrameNext ==
    \/ FrameWrite
    \/ FrameRead
    \/ FrameReadByte

FrameSpec == FrameInit /\ [][FrameNext]_vars

----------------------------------------------------------------------------
\* The parity translation of a dialled connection (src/unnamed/part_001,
\* parityWrapper)

\* math/bits.OnesCount8
RECURSIVE OnesCount8(_)
OnesCount8(b) == IF b = 0 THEN 0 ELSE (b % 2) + OnesCount8(b \div 2)

\* b | 0x80 and b & 0x7f on a byte
Or80(b) == IF b >= 128 THEN b ELSE b + 128
And7f(b) == b % 128

\* parityWrapper.Write that marks the bytes with an even number of one bits
parityWrapperWriteEven(p) ==
    [i \in 1..Len(p) |-> IF OnesCount8(p[i]) % 2 = 0 THEN Or80(p[i]) ELSE p[i]]

\* func (w *parityWrapper) Write: the bytes handed to the wrapped connection
parityWrapperWrite(p) ==
    [i \in 1..Len(p) |-> IF OnesCount8(p[i]) % 2 = 1 THEN Or80(p[i]) ELSE p[i]]

\* parityWrapper.Read that hands the bytes on as they came
parityWrapperReadKeep(p) == p

\* func (w *parityWrapper) Read: the bytes handed to the caller
parityWrapperRead(p) == [i \in 1..Len(p) |-> And7f(p[i])]

----------------------------------------------------------------------------
\* The codec functions on their own (src/unnamed/part_000, and readMessage's
\* classification of the bytes it reads): the input of one call is drawn from
\* the byte sequences up to a length, the call puts its result beside it.

MaxFrameLen == 4
MaxSetLen == 5
MaxBlockLen == 4
MaxIdentLen == 7
MaxFieldLen == 1
MaxBccLen == 4

SeqsUpTo(S, n) == UNION { [1..k -> S] : k \in 0..n }

\* bytes of frames: 65 = 'A', 68 = 'D' = bcc("A" ETX)
FrameBytes == SeqsUpTo({nak, ack, stx, soh, start, etx, lf, 65, 68}, MaxFrameLen)
\* bytes of data-sets and data lines
SetBytes == SeqsUpTo({65, fb, rb, star}, MaxSetLen)
\* bytes of data blocks, and the body "Data()!\r\n" ETX of the read-out tests
readOutBody == <<68, 97, 116, 97, fb, rb, end, cr, lf, etx>>
BlockBytes == SeqsUpTo({65, fb, rb, end, cr, lf, etx}, MaxBlockLen) \cup { readOutBody }
\* bytes of identifications: 54 = '6'
IdentBytes == SeqsUpTo({65, 54, lf}, MaxIdentLen)
\* data-sets a caller can build
FieldBytes == SeqsUpTo({65, fb, rb, star}, MaxFieldLen)
DataSets == [Address : FieldBytes, Value : FieldBytes, Unit : FieldBytes]

\* bytes a parityWrapper carries: every single byte, and the request "/?!" CR LF
\* as writeMessage hands it over
ParityBytes == { <<b>> : b \in 0..255 } \cup { WireFrame(RequestMarshal(<<>>)) }
\* bytes of a checksum: small ones and ones that make the accumulator wrap
BccBytes == SeqsUpTo({1, 65, 127, 128, 255}, MaxBccLen)

CodecIn(bytes, ds) == [bytes |-> bytes, ds |-> ds]

CodecInputs ==
    { CodecIn(b, EmptyDataSet) :
        b \in FrameBytes \cup SetBytes \cup BlockBytes \cup IdentBytes
              \cup ParityBytes \cup BccBytes }
    \cup { CodecIn(<<>>, ds) : ds \in DataSets }

CodecInit ==
    /\ SessionInit
    /\ connection
    /\ pass = "nil"
    /\ tc = NoConn
    /\ codec \in { [NoCodec EXCEPT !.in = i] : i \in CodecInputs }

Call(fn, out) ==
    /\ codec.fn = ""
    /\ codec' = [codec EXCEPT !.fn = fn, !.out = out]
    /\ UNCHANGED <<SessionVars, tc>>

\* readMessage's inner function on the bytes that arrive
CallReadFrame ==
    /\ codec.in.bytes \in FrameBytes
    /\ codec.in.ds = EmptyDataSet
    /\ Call("readMessage", ParseFrame(codec.in.bytes))

CallDataSetUnmarshal ==
    /\ codec.in.bytes \in SetBytes
    /\ codec.in.ds = EmptyDataSet
    /\ Call("DataSet.UnmarshalBinary", DataSetUnmarshal(codec.in.bytes))

CallDataLineUnmarshal ==
    /\ codec.in.bytes \in SetBytes
    /\ codec.in.ds = EmptyDataSet
    /\ Call("DataLine.UnmarshalBinary", DataLineUnmarshal(codec.in.bytes))

CallDataBlockUnmarshal ==
    /\ codec.in.bytes \in BlockBytes
    /\ codec.in.ds = EmptyDataSet
    /\ Call("DataBlock.UnmarshalBinary", DataBlockUnmarshal(codec.in.bytes))

CallIdentityUnmarshal ==
    /\ codec.in.bytes \in IdentBytes
    /\ codec.in.ds = EmptyDataSet
    /\ Call("Identity.UnmarshalBinary", IdentityUnmarshal(codec.in.bytes))

\* ds.MarshalBinary(), then UnmarshalBinary of what it returned
CallDataSetRoundTrip ==
    /\ codec.in.bytes = <<>>
    /\ LET enc == DataSetMarshal(codec.in.ds)
       IN  Call("DataSet.MarshalBinary", [enc |-> enc, dec |-> DataSetUnmarshal(enc)])

\* Write of the bytes through a parityWrapper
CallParityWrite ==
    /\ codec.in.bytes \in ParityBytes
    /\ codec.in.ds = EmptyDataSet
    /\ Call("parityWrapper.Write", [wire |-> parityWrapperWrite(codec.in.bytes)])

\* Read, through a parityWrapper, of the bytes the peer received and sends back
CallParityRead ==
    /\ codec.fn = "parityWrapper.Write"
    /\ codec' = [codec EXCEPT !.fn = "parityWrapper.Read",
                              !.out = [wire |-> codec.out.wire,
                                       p |-> parityWrapperRead(codec.out.wire)]]
    /\ UNCHANGED <<SessionVars, tc>>

\* bcc of the bytes, and of the two parts of each of their splits
CallBcc ==
    /\ codec.in.bytes \in BccBytes
    /\ codec.in.ds = EmptyDataSet
    /\ LET xs == codec.in.bytes
       IN  Call("bcc",
                [whole |-> bcc(xs),
                 parts |-> [k \in 0..Len(xs) |->
                              [xs |-> bcc(SubSeq(xs, 1, k)),
                               ys |-> bcc(SubSeq(xs, k + 1, Len(xs)))]]])

CodecNext ==
    \/ CallParityWrite
    \/ CallParityRead
    \/ CallBcc
    \/ CallReadFrame
    \/ CallDataSetUnmarshal
    \/ CallDataLineUnmarshal
    \/ CallDataBlockUnmarshal
    \/ CallIdentityUnmarshal
    \/ CallDataSetRoundTrip

CodecSpec == CodecInit /\ [][CodecNext]_vars

----------------------------------------------------------------------------
\* Observations on the transport log of the running operation

IsW(e) == e.k = "W"
IsR(e) == e.k = "R"
IsOK(e) == e.k = "R" /\ e.e = "nil"
Writes == SelectSeq(io, IsW)
Reads == SelectSeq(io, IsR)

\* how many times the frame f was written
CountW(f) == Cardinality({ j \in 1..Len(io) : io[j].k = "W" /\ io[j].f = f })

\* the operations whose first transport call is made by cmd()
CmdOps == { "Identity", "ReadOut", "Option", "Command" }

\* every frame written so far went out and every read so far returned a NAK
AlwaysNAK ==
    /\ Reads # <<>>
    /\ \A j \in 1..Len(Reads) : Reads[j].e = "ErrNAK"
    /\ \A j \in 1..Len(Writes) : Writes[j].e = "nil"

\* IdleTimeout as isInProgrammingMode uses it
EffIdle == IF IdleTimeout = 0 THEN 120 ELSE IdleTimeout

\* the frames on the wire
RequestWire == WireFrame(RequestMarshal(address))
BreakWire == <<soh, 66, 48, etx, bcc(<<66, 48, etx>>)>>

----------------------------------------------------------------------------
\* C1: against a peer that answers every frame with NAK, cmd() writes the same
\* frame exactly 5 times, reads exactly 5 times and then fails with ErrNAK;
\* inside cmd() the attempt index never reaches 5, so there is no 6th write.
C1_RetryCap ==
    /\ pc \in {"cmdWrite", "cmdRead"} =>
          /\ ctx.i < 5
          /\ CountW(WireFrame(ctx.p)) <= 5
    /\ (pc = "done" /\ res.op \in CmdOps /\ AlwaysNAK) =>
          /\ Len(Writes) = 5
          /\ Len(Reads) = 5
          /\ \A j \in 1..Len(Writes) : Writes[j].f = Writes[1].f
          /\ res.err = "ErrNAK"

\* an operation has returned ErrNAK after five writes that were all NAKed
C1_Witness ==
    /\ pc = "done"
    /\ res.op \in CmdOps
    /\ AlwaysNAK
    /\ Len(Writes) = 5
    /\ res.err = "ErrNAK"

\* C2: a step of cmd().  When the k-th response is read, k copies of the frame
\* have been written.  A response read without error is returned (the caller
\* decodes it) and lastActivity becomes the current time, with no further
\* write of the frame.  A NAK leaves lastActivity alone and is followed by the
\* next write while fewer than 5 were made.  Any other read error, and a write
\* error, leave lastActivity alone and end the operation with that error.
C2_CmdStep ==
    /\ (pc = "cmdRead" /\ Len(io') > Len(io)) =>
          LET r     == io'[Len(io) + 1]
              retry == /\ pc' = "cmdWrite"
                       /\ ctx'.cmdFor = ctx.cmdFor
                       /\ ctx'.p = ctx.p
                       /\ ctx'.i = ctx.i + 1
          IN  /\ r.k = "R"
              /\ CountW(WireFrame(ctx.p)) = ctx.i + 1
              /\ r.e = "nil" =>
                    /\ lastActivity' = now
                    /\ ~retry
                    /\ (ctx.cmdFor = "command" /\ res'.err = "nil") =>
                          res'.block = <<DataBlockUnmarshal(r.f).Lines>>
                    /\ (ctx.cmdFor = "hs" /\ identity' # <<>>) =>
                          identity' = <<IdentityUnmarshal(r.f).id>>
                    /\ (ctx.cmdFor = "hs" /\ pc' = "hsRead") =>
                          ctx'.id = IdentityUnmarshal(r.f).id
              /\ r.e = "ErrNAK" =>
                    /\ lastActivity' = lastActivity
                    /\ retry <=> ctx.i + 1 < 5
                    /\ ~retry => pc' = "done"
              /\ r.e \notin {"nil", "ErrNAK"} =>
                    /\ lastActivity' = lastActivity
                    /\ pc' = "done"
                    /\ res'.err = r.e
    /\ (pc = "cmdWrite" /\ Len(io') > Len(io)) =>
          LET w == io'[Len(io) + 1]
          IN  /\ w.k = "W"
              /\ w.f = WireFrame(ctx.p)
              /\ lastActivity' = lastActivity
              /\ w.e = "nil" => pc' = "cmdRead" /\ ctx' = ctx
              /\ w.e # "nil" => pc' = "done" /\ res'.err = w.e

C2_FirstNonNAK == [][C2_CmdStep]_vars

\* Identity() succeeded on the third response after two NAKs
C2_Witness ==
    /\ pc = "done"
    /\ res.op = "Identity"
    /\ res.err = "nil"
    /\ Len(Writes) = 3
    /\ Len(Reads) = 3
    /\ Reads[1].e = "ErrNAK"
    /\ Reads[2].e = "ErrNAK"
    /\ Reads[3].e = "nil"
    /\ lastActivity = now

\* C3: a public operation returns ErrNAK only after five consecutive NAKs to
\* the same frame: the last ten transport calls are five writes of one frame,
\* each followed by a read that returned NAK.
C3_NAKOnlyAfterExhaustion ==
    (pc = "done" /\ res.err = "ErrNAK") =>
        /\ Len(io) >= 10
        /\ \A j \in 1..5 :
              LET w == io[Len(io) - 10 + 2 * j - 1]
                  r == io[Len(io) - 10 + 2 * j]
              IN  /\ w.k = "W"
                  /\ w.f = io[Len(io) - 1].f
                  /\ r.k = "R"
                  /\ r.e = "ErrNAK"

\* C4, as stated: in every reachable state, a set programming flag comes with
\* a cached identity and with now - lastActivity < idleTimeout.
C4_FlagImpliesFresh ==
    programmingMode => (identity # <<>> /\ now - lastActivity < EffIdle)

\* C4, amended: in the step in which the programming flag becomes set,
\* lastActivity is set to the current time, and when a public operation
\* returns without error with the flag set, an identity is cached.
C4_FlagStep ==
    /\ (~programmingMode /\ programmingMode') => lastActivity' = now
    /\ (pc' = "done" /\ res'.err = "nil" /\ programmingMode') => identity' # <<>>

C4_FlagSetFresh == [][C4_FlagStep]_vars

\* an operation called with the flag clear has returned without error with the
\* flag set, an identity cached and lastActivity at the current time
C4_Witness ==
    /\ pc = "done"
    /\ res.err = "nil"
    /\ ~ctx.pre.pm
    /\ programmingMode
    /\ identity # <<>>
    /\ lastActivity = now

\* C5: the value isInProgrammingMode() returns to Command is true exactly when,
\* at the call, an identity is cached, the programming flag is set and
\* lastActivity + idleTimeout >= now, an IdleTimeout of 0 counting as 120.
C5_Step ==
    (pc = "idle" /\ ctx'.ipm # "none") =>
        (ctx'.ipm = "true" <=>
            (identity # <<>> /\ programmingMode /\ lastActivity + EffIdle >= now))

C5_ProgrammingModeTest == [][C5_Step]_vars

\* Command found the session in programming mode exactly 120 s after the last
\* activity and is about to write its frame first
C5_Witness ==
    /\ ctx.op = "Command"
    /\ ctx.ipm = "true"
    /\ pc = "cmdWrite"
    /\ io = <<>>
    /\ now = lastActivity + 120

\* a call of Command (other than B0) on a session that had entered programming
\* mode: the call evaluates isInProgrammingMode() before any transport call
CommandOnEntered ==
    /\ pc = "idle"
    /\ ctx'.ipm # "none"
    /\ identity # <<>>
    /\ programmingMode

\* C6, as stated: whenever now - lastActivity >= idleTimeout is observed on a
\* session that had entered programming mode, isInProgrammingMode() is false.
C6_ExpiryAtBound ==
    [][(CommandOnEntered /\ now - lastActivity >= EffIdle) => ctx'.ipm = "false"]_vars

\* C6, amended: whenever now - lastActivity > idleTimeout is observed on a
\* session that had entered programming mode, isInProgrammingMode() is false,
\* and when now - lastActivity <= idleTimeout it is still true; the test reads
\* and writes no frame (the step takes nothing from the socket and logs no
\* write and no read).
C6_Step ==
    CommandOnEntered =>
        /\ (now - lastActivity > EffIdle) => ctx'.ipm = "false"
        /\ (now - lastActivity <= EffIdle) => ctx'.ipm = "true"
        /\ sock' = sock
        /\ \A j \in 1..Len(io') : io'[j].k = "B"

C6_Expiry == [][C6_Step]_vars

\* Command, called more than the idle timeout after the last activity on a
\* session that was in programming mode, found it expired and starts with the
\* handshake
C6_Witness ==
    /\ ctx.op = "Command"
    /\ ctx.pre.id
    /\ ctx.pre.pm
    /\ ctx.ipm = "false"
    /\ pc = "cmdWrite"
    /\ ctx.cmdFor = "hs"
    /\ now - lastActivity > EffIdle

\* C7: Command(B0) is a break in every state of the session: no programming
\* mode test, no handshake, nothing before the break frame; with a transport
\* the one transport call is the write of SOH 'B' '0' ETX BCC, and afterwards no
\* identity is cached and the programming flag is clear.
C7_BreakAlways ==
    (ctx.op = "Command" /\ ctx.cmd.Id = CmdB0) =>
        /\ pc \in {"breakWrite", "done"}
        /\ ctx.ipm = "none"
        /\ pc = "breakWrite" => io = <<>>
        /\ pc = "done" =>
              /\ identity = <<>>
              /\ ~programmingMode
              /\ connection => io = <<EvW(BreakWire, res.err)>>
              /\ ~connection => io = <<>> /\ res.err = "ErrNoConnection"

\* Command(B0) on a session in programming mode has written the break frame
C7_Witness ==
    /\ pc = "done"
    /\ ctx.op = "Command"
    /\ ctx.cmd.Id = CmdB0
    /\ ctx.pre.id
    /\ ctx.pre.pm
    /\ io = <<EvW(BreakWire, "nil")>>
    /\ res.err = "nil"

\* the frame Command writes for its argument, <<>> when the id is not in the table
CommandWire ==
    LET r == CommandMarshal(ctx.cmd.Id, ctx.cmd.Payload)
    IN  IF r.err = "nil" THEN WireFrame(r.data) ELSE <<>>

\* the option-select frame on the wire for the cached identity
OptionWire(pcc, opt) == <<ack, pcc, identity[1].bri, opt, cr, lf>>

\* positions in the log
WritesOf(f) == { j \in 1..Len(io) : io[j].k = "W" /\ io[j].f = f }
OptionWrites == { j \in 1..Len(io) : io[j].k = "W" /\ io[j].f[1] = ack }
ReadsOK == { j \in 1..Len(io) : IsOK(io[j]) }

\* the log starts with a handshake: SetBaudRate(300), then the request
StartsWithHandShake ==
    /\ io # <<>> => io[1] = EvB(300)
    /\ Len(io) >= 2 => (io[2].k = "W" /\ io[2].f = RequestWire)

\* C8: Command with an id other than B0.  When isInProgrammingMode() was true,
\* every frame written is the command frame (no request, no option-select,
\* no baud rate change).  When it was false, the log starts with a handshake
\* even if an identity was cached, and before any write of the command frame
\* the identification has been read, and then for Mode C the option-select of
\* programming mode has been written and answered, for Mode A and B the data
\* block has been read; at that write an identity is cached and the flag set.
\* A successful call returns the block decoded from the last response.
C8_Command ==
    (ctx.op = "Command" /\ ctx.cmd.Id # CmdB0) =>
        /\ ctx.ipm \in {"true", "false"}
        /\ ctx.ipm = "true" =>
              \A j \in 1..Len(io) : io[j].k = "R" \/ (io[j].k = "W" /\ io[j].f = CommandWire)
        /\ ctx.ipm = "false" =>
              /\ connection => (io # <<>> /\ StartsWithHandShake)
              /\ \A j \in WritesOf(CommandWire) :
                    /\ identity # <<>>
                    /\ \E i \in ReadsOK :
                          /\ i < j
                          /\ IdentityUnmarshal(io[i].f).err = "nil"
                          /\ IdentityUnmarshal(io[i].f).id = identity[1]
                    /\ IF identity[1].Mode = ModeC
                       THEN \E i \in OptionWrites, k \in ReadsOK :
                               /\ i < k
                               /\ k < j
                               /\ io[i].f = OptionWire(NormalPCC, ProgrammingMode)
                       ELSE Cardinality({ k \in ReadsOK : k < j }) >= 2
        /\ (pc \in {"cmdWrite", "cmdRead"} /\ ctx.cmdFor = "command") =>
              (identity # <<>> /\ programmingMode)
        /\ (pc = "done" /\ res.err = "nil") =>
              /\ IsOK(io[Len(io)])
              /\ io[Len(io) - 1].k = "W"
              /\ io[Len(io) - 1].f = CommandWire
              /\ res.block = <<DataBlockUnmarshal(io[Len(io)].f).Lines>>

\* Command succeeded on a session that had an identity cached but was not in
\* programming mode: it went through handshake and entry first
C8_Witness ==
    /\ pc = "done"
    /\ ctx.op = "Command"
    /\ ctx.cmd.Id # CmdB0
    /\ ctx.pre.id
    /\ ctx.ipm = "false"
    /\ res.err = "nil"
    /\ identity # <<>>
    /\ identity[1].Mode = ModeC

\* C9: ReadOut starts with a handshake and writes at most one option-select.
\* A successful ReadOut on a Mode C meter has written exactly one, ACK '0' bri
\* '0' CR LF with the bri of the identification read, after the identification
\* and before the last response, and returns the block decoded from that
\* response.  On a Mode A or B meter it has written none, has read two frames
\* and returns the block decoded from the second.
C9_ReadOut ==
    ctx.op = "ReadOut" =>
        /\ connection => (io # <<>> /\ StartsWithHandShake)
        /\ CountW(RequestWire) <= 5
        /\ Cardinality(OptionWrites) <= 1
        /\ (pc = "done" /\ res.err = "nil") =>
              /\ identity # <<>>
              /\ IsOK(io[Len(io)]) \/ identity[1].Mode = ModeB
              /\ LET last == CHOOSE j \in ReadsOK : \A k \in ReadsOK : k <= j
                     frst == CHOOSE j \in ReadsOK : \A k \in ReadsOK : j <= k
                 IN  /\ Cardinality(ReadsOK) = 2
                     /\ IdentityUnmarshal(io[frst].f).id = identity[1]
                     /\ res.block = <<DataBlockUnmarshal(io[last].f).Lines>>
                     /\ IF identity[1].Mode = ModeC
                        THEN \E j \in OptionWrites :
                                /\ OptionWrites = {j}
                                /\ frst < j
                                /\ j < last
                                /\ io[j].f = <<ack, 48, identity[1].bri, 48, cr, lf>>
                                /\ io[j].e = "nil"
                        ELSE OptionWrites = {}

\* ReadOut succeeded on a Mode C meter after one option-select
C9_Witness ==
    /\ pc = "done"
    /\ res.op = "ReadOut"
    /\ res.err = "nil"
    /\ identity # <<>>
    /\ identity[1].Mode = ModeC
    /\ Cardinality(OptionWrites) = 1
    /\ res.block # <<>>

\* C10: the state in which handShake has returned without error.  Identity()
\* returns right there; ReadOut, Option and Command on a Mode C meter are then
\* about to write their option-select.  Mode C: the identity decoded from the
\* identification is cached, the flag is clear and the identification is the
\* last frame read.  Mode A and B: exactly one more frame was read, the
\* identity is cached, the flag is set and lastActivity is the current time.
C10_AfterHandShake ==
    /\ (pc = "done" /\ res.op = "Identity" /\ res.err = "nil" /\ io # <<>>) =>
          /\ identity # <<>>
          /\ res.id = identity
          /\ LET frst == CHOOSE j \in ReadsOK : \A k \in ReadsOK : j <= k
             IN  /\ IdentityUnmarshal(io[frst].f).id = identity[1]
                 /\ IF identity[1].Mode = ModeC
                    THEN /\ ~programmingMode
                         /\ frst = Len(io)
                    ELSE /\ programmingMode
                         /\ Cardinality({ j \in 1..Len(io) : io[j].k = "R" /\ j > frst }) = 1
                         /\ Cardinality(ReadsOK) = 2
                         /\ lastActivity = now
    /\ (pc = "optWrite" /\ Writes # <<>> /\ OptionWrites = {}) =>
          /\ identity # <<>>
          /\ identity[1].Mode = ModeC
          /\ ~programmingMode
          /\ IsOK(io[Len(io)])
          /\ ReadsOK = {Len(io)}
          /\ IdentityUnmarshal(io[Len(io)].f).id = identity[1]

\* Identity() has returned after a handshake with a Mode B meter
C10_Witness ==
    /\ pc = "done"
    /\ res.op = "Identity"
    /\ res.err = "nil"
    /\ io # <<>>
    /\ identity # <<>>
    /\ identity[1].Mode = ModeB
    /\ programmingMode
    /\ lastActivity = now

\* the error Option returns for a meter that is not Mode C
ModeError == "Option selection is available for Mode C only"

\* C11, as stated (its last part): after any failed Option call
\* isInProgrammingMode() is false.
C11_FailedOptionLeaves ==
    (pc = "done" /\ ctx.op = "Option" /\ res.err # "nil") => ~isInProgrammingMode(Cur)

\* the session after an option-select was written, and after Option returned
C11_After ==
    /\ pc = "optRead" => ~programmingMode
    /\ (pc = "done" /\ OptionWrites # {} /\ ctx.o.Option # ProgrammingMode) =>
          ~isInProgrammingMode(Cur)
    /\ (pc = "done" /\ ctx.op = "Option" /\ res.err \notin {"nil", ModeError}) =>
          ~isInProgrammingMode(Cur)
    /\ (pc = "done" /\ ctx.op = "Option" /\ res.err = ModeError) =>
          /\ OptionWrites = {}
          /\ identity # <<>>
          /\ identity[1].Mode # ModeC
          /\ programmingMode

\* the step that sets the flag after an option-select was written
C11_Step ==
    (OptionWrites # {} /\ ~programmingMode /\ programmingMode') =>
        /\ ctx.o.Option = ProgrammingMode
        /\ IsOK(io'[Len(io')])
        /\ IF pass = "nil" THEN DataSetUnmarshal(io'[Len(io')].f).err = "nil"
           ELSE io'[Len(io')].f = <<ack>>
        /\ ctx.op = "Option" => (pc' = "done" /\ res'.err = "nil")

\* C11, amended: the programming flag is clear once an option-select has been
\* sent and is set again only by a successful password exchange after an
\* option-select of ProgrammingMode; after any call that sent an option-select
\* other than ProgrammingMode (Option, or ReadOut on a Mode C meter) and after
\* any failed Option call on a meter that is not Mode A or B,
\* isInProgrammingMode() is false.  An Option call that fails because the
\* meter is Mode A or B has sent no option-select and leaves the flag as the
\* handshake set it.
C11_OptionTiming == [][C11_Step /\ C11_After']_vars

\* Option(ProgrammingMode) with a password callback has succeeded
C11_Witness ==
    /\ pc = "done"
    /\ ctx.op = "Option"
    /\ ctx.o.Option = ProgrammingMode
    /\ pass # "nil"
    /\ res.err = "nil"
    /\ programmingMode
    /\ OptionWrites # {}

\* the last event of the operation's log, after the step
LastEv == io'[Len(io')]

\* passExchange has come to its end with this step: cmd() returned to it
PassEnds ==
    /\ pc = "cmdRead"
    /\ ctx.cmdFor = "pass"
    /\ ~(pc' \in {"cmdWrite", "cmdRead"} /\ ctx'.cmdFor = "pass")

\* passExchange returned nil: Option returns nil, Command goes on to its command
PassSucceeds ==
    IF ctx.op = "Option" THEN pc' = "done" /\ res'.err = "nil"
    ELSE pc' = "cmdWrite" /\ ctx'.cmdFor = "command"

\* passExchange returned err, which the public operation returns
PassFails(err) == pc' = "done" /\ res'.err = err /\ programmingMode' = programmingMode

\* C12, as stated, for the responses the callback's command receives: ACK sets
\* the flag and succeeds, a frame starting with "B0" fails with "device sent
\* break", a data-set with a value fails with that value as the error text,
\* NAK exhaustion and anything else fail with ErrInvalidPassword, and no
\* failure sets the flag.
C12_PassStep ==
    (PassEnds /\ LastEv.k = "R" /\ LastEv.e \in {"nil", "ErrNAK"}) =>
        LET f == LastEv.f
            r == DataSetUnmarshal(f)
        IN  CASE LastEv.e = "ErrNAK" -> PassFails("ErrInvalidPassword")
              [] LastEv.e = "nil" /\ f = <<ack>> -> programmingMode' /\ PassSucceeds
              [] LastEv.e = "nil" /\ f # <<ack>> /\ f[1] = 66 /\ f[2] = 48 ->
                   PassFails("device sent break")
              [] LastEv.e = "nil" /\ f # <<ack>> /\ ~(f[1] = 66 /\ f[2] = 48)
                              /\ r.err = "nil" /\ r.ds.Value # <<>> ->
                   PassFails("device error") /\ ctx'.text = r.ds.Value
              [] OTHER -> PassFails("ErrInvalidPassword")

C12_PassOutcome == [][C12_PassStep]_vars

\* the frame of the command the password callback answers for an empty data-set
PassWire ==
    LET cb == passCallback(EmptyDataSet)
    IN  WireFrame(CommandMarshal(cb.id, <<cb.rv>>).data)

\* C13: Mode B with a password callback.  Command outside programming mode has
\* returned after a handshake that cached a Mode B identity: the callback's
\* command was sent, and when the meter answered it with ACK the password
\* exchange did not fail.
C13_ModeBPassword ==
    (/\ pc = "done"
     /\ ctx.op = "Command"
     /\ ctx.ipm = "false"
     /\ pass # "nil"
     /\ identity # <<>>
     /\ identity[1].Mode = ModeB) =>
        /\ WritesOf(PassWire) # {}
        /\ res.err \notin {"front boundary is missing", "rear boundary is missing"}

\* C14: Option on a meter whose identification decodes to a mode other than C
\* (the handshake went on to read the data block of Mode A and B) writes no
\* option-select frame and returns an error; an option-select frame is only
\* ever written with a Mode C identity cached.
C14_NotModeC ==
    /\ (ctx.op = "Option" /\ ctx.id # NoIdentity) =>
          /\ ctx.id.Mode # ModeC
          /\ OptionWrites = {}
          /\ pc = "done" => res.err # "nil"
    /\ OptionWrites # {} => (identity # <<>> /\ identity[1].Mode = ModeC)

\* Option has returned its error for a Mode A meter, after a good handshake
C14_Witness ==
    /\ pc = "done"
    /\ ctx.op = "Option"
    /\ ctx.id.Mode = ModeA
    /\ identity = <<ctx.id>>
    /\ res.err = ModeError
    /\ WritesOf(RequestWire) # {}

\* C15: SendBreak makes one transport call, the write of SOH 'B' '0' ETX and
\* the BCC of 'B' '0' ETX, and reads nothing; whether that write succeeds or
\* fails (or there is no connection to write to), afterwards no identity is
\* cached and the programming flag is clear.
C15_SendBreak ==
    ctx.op = "SendBreak" =>
        /\ pc \in {"breakWrite", "done"}
        /\ pc = "breakWrite" => io = <<>>
        /\ pc = "done" =>
              /\ identity = <<>>
              /\ ~programmingMode
              /\ connection => io = <<EvW(BreakWire, res.err)>>
              /\ ~connection => io = <<>> /\ res.err = "ErrNoConnection"

\* SendBreak whose write failed, on a session that had an identity and the flag
C15_Witness ==
    /\ pc = "done"
    /\ ctx.op = "SendBreak"
    /\ ctx.pre.id
    /\ ctx.pre.pm
    /\ res.err = "ioerr"
    /\ io = <<EvW(BreakWire, "ioerr")>>
    /\ identity = <<>>

\* ImmediateDreadOut has returned without error with this step
DreadOutOK == pc' = "done" /\ res'.err = "nil"

\* C16: ImmediateDreadOut on a session with a transport writes nothing; its
\* first transport call is SetBaudRate(2400), then it reads the identification
\* frame; the two bytes behind the frame must be CR, LF (otherwise
\* ErrInvalidFrame); it reads up to '!' and then up to LF; on success it returns
\* the block decoded from the bytes up to '!' and caches (and returns) the
\* frame's identity with mode D and the frame's bri; when it does not succeed
\* the cached identity stays as it was.
C16_Step ==
    (ctx'.op = "ImmediateDreadOut") =>
        /\ \A j \in 1..Len(io') : io'[j].k # "W"
        /\ connection => io'[1] = EvB(2400)
        /\ ~DreadOutOK => identity' = identity
        /\ (pc' = "done" /\ Len(io') = 3 /\ ~(Len(io'[3].f) >= 2 /\ io'[3].f[1] = cr
                                              /\ io'[3].f[2] = lf)) =>
              res'.err = "ErrInvalidFrame"
        /\ DreadOutOK =>
              /\ Len(io') = 3
              /\ IsOK(io'[2])
              /\ io'[3].k = "D"
              /\ LET f == io'[2].f
                     b == io'[3].f
                     i == IndexByte(b, end)
                 IN  /\ b[1] = cr /\ b[2] = lf
                     /\ i # -1
                     /\ IndexByte(Slice(b, i + 1, Len(b)), lf) = Len(b) - i - 2
                     /\ res'.block = <<DataBlockUnmarshal(Slice(b, 2, i + 1)).Lines>>
                     /\ res'.id = <<[IdentityUnmarshal(f).id EXCEPT !.Mode = ModeD]>>
                     /\ identity' = res'.id
                     /\ identity'[1].Mode = ModeD
                     /\ identity'[1].bri = f[4]

C16_ImmediateDreadOut == [][C16_Step]_vars

\* ImmediateDreadOut has succeeded on a session that had an identity cached
C16_Witness ==
    /\ pc = "done"
    /\ ctx.op = "ImmediateDreadOut"
    /\ ctx.pre.id
    /\ res.err = "nil"
    /\ res.block # <<>>
    /\ identity # <<>>
    /\ identity[1].Mode = ModeD

\* the identity value id has the mode its bri decodes to
ModeOfBri(id) == id # <<>> => id[1].Mode = decodeMode(id[1].bri)

\* C17, as stated: every identity the session caches or returns has
\* mode = decodeMode(bri).
C17_ModeIsDecodeMode == ModeOfBri(identity) /\ ModeOfBri(res.id)

\* C17, amended: an identity that a handshake caches (in Identity, ReadOut,
\* Option or Command) has mode = decodeMode(bri); the identity that
\* ImmediateDreadOut caches has mode D whatever its bri; every identity an
\* operation returns is the cached one, so Identity() after ImmediateDreadOut
\* returns a mode D identity too.
C17_Step ==
    /\ (identity' # identity /\ identity' # <<>>) =>
          IF ctx'.op = "ImmediateDreadOut" THEN identity'[1].Mode = ModeD
          ELSE ModeOfBri(identity')
    /\ res'.id # <<>> => res'.id = identity'

C17_ModeByOperation == [][C17_Step]_vars

\* Identity() has returned the identity of a Mode B meter
C17_Witness ==
    /\ pc = "done"
    /\ ctx.op = "Identity"
    /\ res.err = "nil"
    /\ res.id = identity
    /\ identity # <<>>
    /\ identity[1].Mode = ModeB
    /\ identity[1].bri = 69

\* C18, Identity() by the cache: with an identity cached it returns that
\* identity and makes no transport call; with none cached it starts a handshake
\* (SetBaudRate(300), then the request) and writes nothing but the request; on
\* a session without a transport that handshake panics.
C18_IdentityCall ==
    ctx.op = "Identity" =>
        /\ ctx.pre.id =>
              /\ pc = "done"
              /\ io = <<>>
              /\ res.err = "nil"
              /\ res.id = identity
              /\ identity # <<>>
        /\ (~ctx.pre.id /\ connection) =>
              /\ io # <<>>
              /\ StartsWithHandShake
              /\ \A j \in 1..Len(io) : io[j].k = "W" => io[j].f = RequestWire
              /\ Cardinality(ReadsOK) <= 2
        /\ (~ctx.pre.id /\ ~connection) => (pc = "done" /\ res.err = "panic" /\ io = <<>>)

\* C18, the cache: SendBreak, Reset, DropProgrammingMode and the start of every
\* handshake leave no identity cached.
C18_Emptied ==
    /\ (ctx.op = "SendBreak" /\ pc' = "done") => identity' = <<>>
    /\ (\E conn \in BOOLEAN : Reset(conn)) => identity' = <<>>
    /\ DropProgrammingMode => identity' = <<>>
    /\ (ctx.hsFor = "" /\ ctx'.hsFor # "") => identity' = <<>>

\* C18: Identity() performs I/O, one handshake, if and only if no identity is
\* cached, and the cache is emptied by SendBreak, Reset, DropProgrammingMode and
\* at the start of every handshake.
C18_IdentityCaching == [][C18_Emptied /\ C18_IdentityCall']_vars

\* Identity() has answered from the cache
C18_Witness ==
    /\ pc = "done"
    /\ ctx.op = "Identity"
    /\ ctx.pre.id
    /\ io = <<>>
    /\ res.id = identity
    /\ identity # <<>>

\* the errors C19 is about
FrameErrors == { "ErrInvalidFrame", "timeout" }

\* C19, as stated (what follows from it for the two facts the call records on
\* entry): after an operation that failed with ErrInvalidFrame or a timeout an
\* identity is cached exactly if one was cached before the call, and the flag
\* is as it was before the call.
C19_Untouched ==
    (pc = "done" /\ res.err \in FrameErrors) =>
        /\ (identity # <<>>) = ctx.pre.id
        /\ programmingMode = ctx.pre.pm

\* C19, amended: an operation that starts no handshake leaves the cached
\* identity and the programming flag untouched in every step, so also when it
\* fails with ErrInvalidFrame or a timeout: Command while in programming mode
\* (other than B0) and ImmediateDreadOut that does not succeed.  An operation
\* that handshakes has emptied the cache and cleared the flag before its first
\* transport call; when it then fails with ErrInvalidFrame or a timeout, an
\* identity is cached only if it was read in this call, and the flag is set
\* only if this call received a frame.
C19_Step ==
    /\ (ctx'.op = "Command" /\ ctx'.ipm = "true" /\ ctx'.cmd.Id # CmdB0) =>
          (identity' = identity /\ programmingMode' = programmingMode)
    /\ (ctx'.op = "ImmediateDreadOut" /\ ~DreadOutOK) =>
          (identity' = identity /\ programmingMode' = programmingMode)
    /\ (pc' = "done" /\ res'.err \in FrameErrors /\ ctx'.hsFor # "") =>
          /\ identity' # <<>> =>
                \E j \in ReadsOK' : /\ IdentityUnmarshal(io'[j].f).err = "nil"
                                    /\ IdentityUnmarshal(io'[j].f).id = identity'[1]
          /\ programmingMode' => ReadsOK' # {}
    /\ (pc' = "done" /\ res'.err \in FrameErrors /\ ctx'.hsFor # "" /\ ReadsOK' = {}) =>
          (identity' = <<>> /\ ~programmingMode')

C19_FailureLeaves == [][C19_Step]_vars

\* Command in programming mode has failed with a timeout; identity and flag stand
C19_Witness ==
    /\ pc = "done"
    /\ ctx.op = "Command"
    /\ ctx.ipm = "true"
    /\ res.err = "timeout"
    /\ identity # <<>>
    /\ programmingMode

\* this step wrote a frame to the transport
WriteStep == Len(io') = Len(io) + 1 /\ LastEv.k = "W" /\ LastEv.e = "nil"

\* the operation waits in a read that follows a write
ReadsAfterWrite == { "cmdRead", "optRead" }

\* C20, as stated: no frame is written while the frame written before it has
\* not been followed by a read.
C20_NoTwoWrites == [][WriteStep => sent = <<>>]_vars

\* C20, amended: a frame other than the break frame is always followed by a
\* read call before the session writes again or the operation returns; the
\* break frame is followed by no read, so the write after a break follows
\* the break with nothing read between.
C20_Step ==
    /\ WriteStep => sent \in {<<>>, BreakWire}
    /\ pc' \in ReadsAfterWrite <=> sent' \notin {<<>>, BreakWire}
    /\ (pc \in ReadsAfterWrite /\ sent' # sent) =>
          (sent' = <<>> /\ Len(io') > Len(io) /\ io'[Len(io) + 1].k = "R")

C20_Alternation == [][C20_Step]_vars

\* a read-out of a Mode C meter: two frames written, each answered before the
\* next transport call
C20_Witness ==
    /\ pc = "done"
    /\ ctx.op = "ReadOut"
    /\ res.err = "nil"
    /\ sent = <<>>
    /\ Len(io) = 6
    /\ io[2].k = "W" /\ IsOK(io[3]) /\ io[4].k = "W" /\ IsOK(io[6])

\* C21: every public operation that has returned on a session without a
\* transport returned ErrNoConnection (no panic, no success).
C21_NoConnection ==
    (pc = "done" /\ ~connection) => res.err = "ErrNoConnection"

\* C23: Command, ReadOut or Option that has returned ErrBCC for a response
\* with a wrong BCC has returned the payload of that response with it.
C23_PayloadWithErrBCC ==
    (pc = "done" /\ ctx.op \in {"Command", "ReadOut", "Option"} /\ res.err = "ErrBCC") =>
        res.block # <<>>

\* this step is a call of writeMessage, of readMessage
WriteCall == tc'.n = tc.n + 1 /\ tc'.call.fn = "writeMessage"
ReadCall == tc'.n = tc.n + 1 /\ tc'.call.fn = "readMessage"

\* C24: writeMessage(data) that returns nil for a non-empty data has put on the
\* wire data followed by bcc(data[1:]) when data[0] is SOH, by CR LF when it is
\* '/' or ACK, and by nothing otherwise; the frame is logged (as "request",
\* with exactly these bytes) only in a call whose flush succeeded, and a call
\* that fails logs nothing.
C24_Step ==
    WriteCall =>
        LET d == tc'.call.arg
        IN  /\ (tc'.call.err = "nil" /\ d # <<>>) =>
                  /\ tc'.call.wire =
                        d \o (CASE d[1] = soh -> <<bcc(Tail(d))>>
                                [] d[1] = start -> <<cr, lf>>
                                [] d[1] = ack -> <<cr, lf>>
                                [] OTHER -> <<>>)
                  /\ tc.logging =>
                        tc'.flog = Append(tc.flog, [prefix |-> "request",
                                                    bytes |-> tc'.call.wire])
            /\ (tc'.call.err # "nil" \/ d = <<>>) =>
                  (tc'.call.wire = <<>> /\ tc'.flog = tc.flog)

C24_WriteRule == [][C24_Step]_vars

\* a break frame has gone out with its BCC and was logged
C24_Witness ==
    /\ tc.call.fn = "writeMessage"
    /\ tc.call.arg = breakMsg
    /\ tc.call.err = "nil"
    /\ tc.call.wire = BreakWire
    /\ tc.flog # <<>>
    /\ tc.flog[Len(tc.flog)] = [prefix |-> "request", bytes |-> BreakWire]

\* the frame a successful readMessage has taken from the transport: the head,
\* the bytes it returns, and the BCC behind an ETX
FrameRead1(arg, data) ==
    IF data = <<ack>> THEN data
    ELSE IF arg[1] = start THEN <<arg[1]>> \o data
    ELSE <<arg[1]>> \o data \o <<arg[Len(data) + 2]>>

\* C25: the logger prints at most one record per call; a "request" record is
\* printed only by a writeMessage that returned nil (its flush succeeded) and
\* holds the frame that went out; a "response" record is printed only by a
\* readMessage that returned nil and holds exactly the frame it read; a call
\* that fails (NAK, BCC mismatch, invalid frame, failed or timed out read, failed
\* write) prints nothing.
C25_Step ==
    /\ Len(tc'.flog) <= Len(tc.flog) + 1
    /\ tc'.flog # tc.flog =>
          LET rec == tc'.flog[Len(tc'.flog)]
          IN  /\ tc'.flog = Append(tc.flog, rec)
              /\ tc'.call.err = "nil"
              /\ rec.prefix \in {"request", "response"}
              /\ rec.prefix = "request" => (WriteCall /\ rec.bytes = tc'.call.wire)
              /\ rec.prefix = "response" =>
                    (ReadCall /\ rec.bytes = FrameRead1(tc'.call.arg, tc'.call.data))
    /\ tc'.call.err # "nil" => tc'.flog = tc.flog
    /\ (tc.logging /\ ReadCall /\ tc'.call.err = "nil") => tc'.flog # tc.flog

C25_LogOrdering == [][C25_Step]_vars

\* a first call that logged nothing, then a response read and logged
C25_Witness ==
    /\ tc.n = 2
    /\ tc.call.fn = "readMessage"
    /\ tc.call.err = "nil"
    /\ tc.call.arg = blockOK
    /\ tc.flog = << [prefix |-> "response", bytes |-> blockOK] >>

\* the position of the first b in s behind its first byte, 0 when there is none
FirstAfterHead(s, b) ==
    LET at == { j \in 2..Len(s) : s[j] = b }
    IN  IF at = {} THEN 0 ELSE CHOOSE j \in at : \A k \in at : j <= k

\* C22: readMessage classifies what it reads by the first byte: NAK gives
\* ErrNAK; ACK gives the frame [ACK]; behind STX or SOH it reads up to and
\* including the first ETX and one more byte, the BCC, and returns the bytes
\* behind the head up to and including the ETX, with ErrBCC exactly when that
\* byte is not their bcc; behind '/' it reads up to and including the first LF;
\* any other first byte gives ErrInvalidFrame; bytes that never come end in the
\* transport's timeout.
C22_ReadRule ==
    codec.fn = "readMessage" =>
        LET s == codec.in.bytes
            r == codec.out
            e == FirstAfterHead(s, etx)
            l == FirstAfterHead(s, lf)
        IN  CASE s = <<>> -> r.err = "timeout"
              [] s # <<>> /\ s[1] = nak -> r.err = "ErrNAK" /\ r.n = 1
              [] s # <<>> /\ s[1] = ack -> r.err = "nil" /\ r.data = <<ack>> /\ r.n = 1
              [] s # <<>> /\ s[1] \in {stx, soh} ->
                    IF e = 0 \/ Len(s) < e + 1 THEN r.err = "timeout"
                    ELSE /\ r.data = SubSeq(s, 2, e)
                         /\ r.n = e + 1
                         /\ r.err = IF s[e + 1] = bcc(SubSeq(s, 2, e)) THEN "nil" ELSE "ErrBCC"
              [] s # <<>> /\ s[1] = start ->
                    IF l = 0 THEN r.err = "timeout"
                    ELSE r.data = SubSeq(s, 2, l) /\ r.n = l /\ r.err = "nil"
              [] OTHER -> r.err = "ErrInvalidFrame" /\ r.n = 1

\* STX 'A' ETX 'D' was read: the payload is 'A' ETX and the BCC is right
C22_Witness ==
    /\ codec.fn = "readMessage"
    /\ codec.in.bytes = <<stx, 65, etx, 68>>
    /\ codec.out.err = "nil"
    /\ codec.out.data = <<65, etx>>

\* C26: the body "Data()!" CR LF ETX decodes without error to exactly one
\* line holding exactly one data-set, with address "Data"; '!', CR LF and ETX
\* add no line and no set.
C26_ReadOutBody ==
    (codec.fn = "DataBlock.UnmarshalBinary" /\ codec.in.bytes = readOutBody) =>
        /\ codec.out.err = "nil"
        /\ codec.out.Lines =
              << << [Address |-> <<68, 97, 116, 97>>, Value |-> <<>>, Unit |-> <<>>] >> >>

\* the bytes of a line behind its last ')' (the whole line when it has none)
TailAfterLastRb(s) ==
    LET at == { j \in 1..Len(s) : s[j] = rb }
    IN  IF at = {} THEN s
        ELSE SubSeq(s, (CHOOSE j \in at : \A k \in at : k <= j) + 1, Len(s))

\* C27: DataLine decode returns an error whenever the line holds a fragment
\* that is not a complete data-set; in particular when bytes follow the last
\* ')' without a closing ')' of their own, as in "ADDR(".
C27_FragmentIsError ==
    (codec.fn = "DataLine.UnmarshalBinary" /\ TailAfterLastRb(codec.in.bytes) # <<>>) =>
        codec.out.err # "nil"

Has(s, b) == \E j \in 1..Len(s) : s[j] = b

AllEmpty(ds) == Len(ds.Address) + Len(ds.Value) + Len(ds.Unit) = 0

\* no field holds a byte that the encoding uses as a delimiter at that place
DelimiterFree(ds) ==
    /\ ~Has(ds.Address, fb) /\ ~Has(ds.Address, rb)
    /\ ~Has(ds.Value, rb) /\ ~Has(ds.Value, star)
    /\ ~Has(ds.Unit, rb)

\* decoding the encoding gave back the data-set that was encoded
RoundTrips == codec.out.dec.err = "nil" /\ codec.out.dec.ds = codec.in.ds

\* C28 as stated: every data-set that is not all empty survives encoding and
\* decoding; the all-empty one encodes to no bytes, which do not decode.
C28_RoundTripAll ==
    codec.fn = "DataSet.MarshalBinary" =>
        IF AllEmpty(codec.in.ds)
        THEN codec.out.enc = <<>> /\ codec.out.dec.err \notin {"nil", "panic"}
        ELSE RoundTrips

\* C28: a data-set that is not all empty survives encoding and decoding
\* exactly when its address holds neither '(' nor ')', its value neither ')'
\* nor '*', and its unit no ')'; the all-empty data-set encodes to no bytes,
\* and decoding no bytes fails with "front boundary is missing".
C28_RoundTrip ==
    codec.fn = "DataSet.MarshalBinary" =>
        IF AllEmpty(codec.in.ds)
        THEN codec.out.enc = <<>> /\ codec.out.dec.err = "front boundary is missing"
        ELSE RoundTrips <=> DelimiterFree(codec.in.ds)

\* address, value and unit all present: "A(A*A)" came back as it went in
C28_Witness ==
    /\ codec.fn = "DataSet.MarshalBinary"
    /\ codec.in.ds = [Address |-> <<65>>, Value |-> <<65>>, Unit |-> <<65>>]
    /\ codec.out.enc = <<65, fb, 65, star, 65, rb>>
    /\ RoundTrips

\* the least position behind position from where s holds b, 0 when there is none
FirstFrom(s, b, from) ==
    LET at == { j \in (from + 1)..Len(s) : s[j] = b }
    IN  IF at = {} THEN 0 ELSE CHOOSE j \in at : \A k \in at : j <= k

\* C29: DataSet decode yields a value or an error for every byte sequence: the
\* front-boundary error when there is no '(', the rear-boundary error when
\* there is no ')' behind the first '(', and otherwise the address is what
\* stands before the first '(' and the bytes between that '(' and the first
\* ')' behind it are split at their first '*' into value and unit.
C29_DecodeRule ==
    codec.fn = "DataSet.UnmarshalBinary" =>
        LET s == codec.in.bytes
            f == FirstFrom(s, fb, 0)
            r == FirstFrom(s, rb, f)
            inner == SubSeq(s, f + 1, r - 1)
            p == FirstFrom(inner, star, 0)
        IN  IF f = 0 THEN codec.out.err = "front boundary is missing"
            ELSE IF r = 0 THEN codec.out.err = "rear boundary is missing"
            ELSE /\ codec.out.err = "nil"
                 /\ codec.out.ds.Address = SubSeq(s, 1, f - 1)
                 /\ codec.out.ds.Value = IF p = 0 THEN inner ELSE SubSeq(inner, 1, p - 1)
                 /\ codec.out.ds.Unit = IF p = 0 THEN <<>> ELSE SubSeq(inner, p + 1, Len(inner))

\* C30: Identity decode succeeds for every input of at least 4 bytes, with the
\* manufacturer in bytes 0..2, bri in byte 3 and the device in the bytes from
\* index 4 up to the final two; a shorter input gives an error; no input makes
\* the decoder crash.
C30_IdentityDecode ==
    codec.fn = "Identity.UnmarshalBinary" =>
        LET s == codec.in.bytes
        IN  /\ codec.out.err # "panic"
            /\ Len(s) < 4 => codec.out.err # "nil"
            /\ Len(s) >= 4 =>
                  /\ codec.out.err = "nil"
                  /\ codec.out.id.Manufacturer = SubSeq(s, 1, 3)
                  /\ codec.out.id.bri = s[4]
                  /\ codec.out.id.Device = SubSeq(s, 5, Len(s) - 2)

\* the request "/?!" CR LF went through parityWrapper.Write
RequestThroughParity ==
    /\ codec.fn = "parityWrapper.Write"
    /\ codec.in.bytes = WireFrame(RequestMarshal(<<>>))

\* C31 as stated: with the parity translation on, the request "/?!" CR LF goes
\* onto the wire as AF 3F A1 8D 0A.
C31_WireAsStated == RequestThroughParity => codec.out.wire = <<175, 63, 161, 141, 10>>

\* C31: with the parity translation on, the request "/?!" CR LF goes onto the
\* wire as AF 3F 21 8D 0A: '!' (0x21) has two one bits and keeps bit 7 clear.
C31_Wire == RequestThroughParity => codec.out.wire = <<175, 63, 33, 141, 10>>

\* the request was translated: '/' went out with bit 7 set, '?' without
C31_Witness ==
    /\ RequestThroughParity
    /\ codec.in.bytes = <<47, 63, 33, 13, 10>>
    /\ codec.out.wire[1] = 175
    /\ codec.out.wire[2] = 63

\* C32: for every byte b the write side sets bit 7 exactly when b has an odd
\* number of one bits (a byte with an even number goes out as it is) and leaves
\* the low 7 bits as they are, the read side clears bit 7, and reading back
\* what was written gives b & 0x7F.
C32_ParityLaw ==
    /\ (codec.fn = "parityWrapper.Write" /\ Len(codec.in.bytes) = 1) =>
          LET b == codec.in.bytes[1]
              w == codec.out.wire[1]
          IN  /\ w % 128 = b % 128
              /\ OnesCount8(b) % 2 = 1 => w >= 128
              /\ OnesCount8(b) % 2 = 0 => w = b
    /\ (codec.fn = "parityWrapper.Read" /\ Len(codec.in.bytes) = 1) =>
          LET b == codec.in.bytes[1]
              w == codec.out.wire[1]
              r == codec.out.p[1]
          IN  /\ r < 128
              /\ r = w % 128
              /\ r = b % 128

\* 0x2F ('/', five one bits) went out as 0xAF and came back as 0x2F
C32_Witness ==
    /\ codec.fn = "parityWrapper.Read"
    /\ codec.in.bytes = <<47>>
    /\ codec.out.wire = <<175>>
    /\ codec.out.p = <<47>>

\* the sum of the bytes as an integer, without any wrap-around
RECURSIVE SumBytes(_)
SumBytes(xs) == IF xs = <<>> THEN 0 ELSE Head(xs) + SumBytes(Tail(xs))

\* C33: bcc(xs) is the sum of the bytes of xs modulo 128, whether or not the
\* 8-bit accumulator wrapped, and for every split of a sequence into xs and ys
\* bcc(xs ++ ys) = (bcc(xs) + bcc(ys)) & 0x7F.
C33_BccSum ==
    codec.fn = "bcc" =>
        /\ codec.out.whole = SumBytes(codec.in.bytes) % 128
        /\ \A k \in 0..Len(codec.in.bytes) :
              codec.out.whole = (codec.out.parts[k].xs + codec.out.parts[k].ys) % 128

\* FF FF 01 sums to 511: the accumulator wrapped, and the checksum is 127
C33_Witness ==
    /\ codec.fn = "bcc"
    /\ codec.in.bytes = <<255, 255, 1>>
    /\ codec.out.whole = 127
    /\ codec.out.parts[2] = [xs |-> 126, ys |-> 1]

\* positions in the log where the answer to the request was read and decoded
\* as an identification
IdentReads ==
    { j \in 2..Len(io) :
        /\ IsOK(io[j])
        /\ io[j - 1].k = "W" /\ io[j - 1].f = RequestWire
        /\ IdentityUnmarshal(io[j].f).err = "nil" }

BaudCalls == { j \in 1..Len(io) : io[j].k = "B" }

\* C34: in an operation that runs a handshake the first transport call is
\* SetBaudRate(300), ahead of the request.  For a Mode B identification the
\* next call after its read is SetBaudRate(decodeBaudRate(bri)), then comes the
\* read of the data block, and SetBaudRate(300) follows directly when that read
\* has returned a frame; the handshake makes no other SetBaudRate call.  For a
\* Mode A or Mode C identification the handshake makes none but the first: any
\* later one stands behind an option-select frame and is Option's.
C34_BaudDance ==
    /\ WritesOf(RequestWire) # {} => io[1] = EvB(300)
    /\ (io # <<>> /\ io[1] = EvB(300)) =>
          /\ IdentReads = {} => BaudCalls = {1}
          /\ \A j \in IdentReads :
                LET id == IdentityUnmarshal(io[j].f).id
                IN  IF id.Mode = ModeB
                    THEN /\ Len(io) >= j + 1
                         /\ io[j + 1] = EvB(decodeBaudRate(id.bri))
                         /\ Len(io) >= j + 2 =>
                               /\ io[j + 2].k = "R"
                               /\ IsOK(io[j + 2]) =>
                                     (Len(io) >= j + 3 /\ io[j + 3] = EvB(300))
                         /\ BaudCalls \subseteq {1, j + 1, j + 3}
                         /\ j + 3 \in BaudCalls => IsOK(io[j + 2])
                    ELSE \A k \in BaudCalls \ {1} :
                            io[k - 1].k = "W" /\ io[k - 1].f[1] = ack

\* a Mode B handshake ran through: 300, the request, the identification, the
\* rate of the block, the block, 300
C34_Witness ==
    \E j \in IdentReads :
        /\ IdentityUnmarshal(io[j].f).id.Mode = ModeB
        /\ io[1] = EvB(300)
        /\ Len(io) >= j + 3
        /\ io[j + 1].k = "B" /\ io[j + 1].v # 300
        /\ IsOK(io[j + 2])
        /\ io[j + 3] = EvB(300)

\* C35: Option writes its option-select frame (ACK, pcc, the bri of the cached
\* identity whatever the caller gave, option) at most once in a call; when the
\* write went out the next transport call is SetBaudRate(decodeBaudRate(bri))
\* and the one after it the single read of the response; every later read
\* answers a later frame, so the option-select is never written again, not
\* even after a NAK.  A failed write ends the call.
C35_OptionOnce ==
    /\ Cardinality(OptionWrites) <= 1
    /\ \A j \in OptionWrites :
          /\ identity # <<>>
          /\ ctx.o.bri = identity[1].bri
          /\ io[j].f = OptionWire(ctx.o.PCC, ctx.o.Option)
          /\ IF io[j].e = "nil"
             THEN /\ Len(io) >= j + 1
                  /\ io[j + 1] = EvB(decodeBaudRate(identity[1].bri))
                  /\ Len(io) = j + 1 <=> pc = "optRead"
                  /\ Len(io) >= j + 2 => io[j + 2].k = "R"
                  /\ \A k \in (j + 3)..Len(io) :
                        io[k].k = "R" => (io[k - 1].k = "W" /\ k - 1 # j)
             ELSE Len(io) = j /\ pc = "done"

\* the option-select was answered with NAK and the call ended with one write
C35_Witness ==
    /\ pc = "done"
    /\ ctx.op = "Option"
    /\ res.err = "ErrNAK"
    /\ Cardinality(OptionWrites) = 1
    /\ \E j \in OptionWrites :
          /\ Len(io) = j + 2
          /\ io[j + 1].k = "B"
          /\ io[j + 2].k = "R" /\ io[j + 2].e = "ErrNAK"

\* positions of the option-select of programming mode whose response was read
PMAnswered ==
    { j \in OptionWrites :
        /\ ctx.o.Option = ProgrammingMode
        /\ Len(io) >= j + 2
        /\ IsOK(io[j + 2]) }

\* C36: the password callback is called at most once in a password exchange;
\* when it is called, the response to the option-select of programming mode
\* has been read and decoded as a data-set, and the argument is that data-set
\* with an empty address and the value and unit as decoded; it is not called
\* when the decoding fails, and it is called when the decoding succeeds and a
\* callback is set.
C36_Callback ==
    /\ Len(ctx.cb) <= 1
    /\ ctx.cb # <<>> =>
          /\ pass # "nil"
          /\ ctx.passFor = "Option"
          /\ \E j \in PMAnswered :
                LET r == DataSetUnmarshal(io[j + 2].f)
                IN  /\ r.err = "nil"
                    /\ ctx.cb[1] = [Address |-> <<>>, Value |-> r.ds.Value,
                                    Unit |-> r.ds.Unit]
    /\ \A j \in PMAnswered :
          LET r == DataSetUnmarshal(io[j + 2].f)
          IN  /\ r.err # "nil" => ctx.cb = <<>>
              /\ (r.err = "nil" /\ pass # "nil") => Len(ctx.cb) = 1

\* the meter answered SOH "P0" STX "(1*V)" ETX: the data-set decoded from it has
\* the address "P0" STX, the callback got value "1" and unit "V" and no address
C36_Witness ==
    /\ ctx.cb = << [Address |-> <<>>, Value |-> <<49>>, Unit |-> <<86>>] >>
    /\ \E j \in PMAnswered :
          DataSetUnmarshal(io[j + 2].f).ds.Address = <<80, 48, stx>>

\* C37: no byte the meter sent is lost between two frame reads.  When the read
\* of a Mode A identification pulled bytes of the data block that was sent
\* right behind it into the reader's buffer, the next read of the handshake,
\* unless the transport itself fails, returns that block.
C37_NoByteLost ==
    \A j \in IdentReads :
        (/\ io[j].v > 0
         /\ Len(io) > j
         /\ io[j + 1].k = "R"
         /\ io[j + 1].e # "ioerr") =>
            /\ IsOK(io[j + 1])
            /\ io[j + 1].f = ParseFrame(blockOK).data

\* Command has returned an error that enterProgrammingMode returned to it: it
\* found the session outside programming mode, its command marshals, and it
\* made no attempt to write the command frame
EntryFailed ==
    /\ pc = "done"
    /\ ctx.op = "Command"
    /\ ctx.cmd.Id # CmdB0
    /\ ctx.ipm = "false"
    /\ res.err \notin {"nil", "panic"}
    /\ CommandWire # <<>>
    /\ WritesOf(CommandWire) = {}

\* C38: whenever enterProgrammingMode has returned an error, so that Command
\* failed before writing its command frame, isInProgrammingMode() is false.
C38_FailedEntryClears == EntryFailed => ~isInProgrammingMode(Cur)

\* the first write of the command frame in the log
FirstCommandWrite == CHOOSE c \in WritesOf(CommandWire) : \A k \in WritesOf(CommandWire) : c <= k

\* C39: when Command has written the frame of a command other than B0, an
\* identity is cached and the programming flag is set.  When the call had to
\* enter programming mode first, then ahead of that write the handshake has
\* read the identification that is cached, for Mode C the option-select of
\* programming mode has been written and answered and, with a password
\* callback, its command has been acknowledged, for Mode A and B the data block
\* has been read; no write ahead of it failed, and the only failed reads ahead
\* of it are NAKs that the same frame was sent again after.
C39_CommandOnlyEntered ==
    (ctx.op = "Command" /\ ctx.cmd.Id # CmdB0 /\ WritesOf(CommandWire) # {}) =>
        /\ identity # <<>>
        /\ programmingMode
        /\ ctx.ipm \in {"true", "false"}
        /\ ctx.ipm = "false" =>
              LET c == FirstCommandWrite
              IN  /\ \E j \in IdentReads :
                        /\ j < c
                        /\ IdentityUnmarshal(io[j].f).id = identity[1]
                        /\ identity[1].Mode = ModeA => (j + 1 < c /\ IsOK(io[j + 1]))
                        /\ identity[1].Mode = ModeB => (j + 2 < c /\ IsOK(io[j + 2]))
                  /\ identity[1].Mode = ModeC =>
                        /\ \E j \in PMAnswered : j + 2 < c /\ io[j].e = "nil"
                        /\ pass # "nil" =>
                              \E j \in WritesOf(PassWire) :
                                  j + 1 < c /\ IsOK(io[j + 1]) /\ io[j + 1].f = <<ack>>
                  /\ \A k \in 1..(c - 1) :
                        /\ io[k].k = "W" => io[k].e = "nil"
                        /\ (io[k].k = "R" /\ io[k].e # "nil") =>
                              /\ io[k].e = "ErrNAK"
                              /\ io[k + 1].k = "W"
                              /\ io[k + 1].f = io[k - 1].f

\* Command entered programming mode on a Mode C meter with a password and then
\* wrote its frame
C39_Witness ==
    /\ ctx.op = "Command"
    /\ ctx.ipm = "false"
    /\ pass # "nil"
    /\ identity # <<>>
    /\ identity[1].Mode = ModeC
    /\ WritesOf(CommandWire) # {}
    /\ WritesOf(PassWire) # {}
    /\ programmingMode

Running == pc \notin {"idle", "done"}

\* the frames written in the call so far
FramesWritten == { io[j].f : j \in { k \in 1..Len(io) : io[k].k = "W" } }

\* the places where a running operation waits for a transport call to return
TransportCalls ==
    {"cmdWrite", "cmdRead", "hsRead", "optWrite", "optRead", "breakWrite", "dRead"}

\* C40, the counts: in one call no frame is written more than 5 times, and the
\* request is written only ahead of the first frame read, so the handshake is
\* run at most once; at most four different frames are written (request,
\* option-select, password command, command), and the transport log of a call
\* has at most 6 * 5 + 4 entries.
C40_Bounded ==
    /\ \A f \in FramesWritten : CountW(f) <= MaxAttempts
    /\ \A j \in WritesOf(RequestWire) : \A k \in 1..j : ~IsOK(io[k])
    /\ Cardinality(FramesWritten) <= 4
    /\ Len(io) <= 6 * MaxAttempts + 4
    /\ Running => pc \in TransportCalls

\* C40, the steps: an operation that is running waits for one transport call,
\* and when the call returns the operation either is at its end or has one more
\* entry in its log, the former entries unchanged; it never starts over.
C40_Step ==
    (Running /\ (pc' # pc \/ io' # io)) =>
        /\ pc' # "idle"
        /\ \/ pc' = "done"
           \/ /\ Len(io') > Len(io)
              /\ SubSeq(io', 1, Len(io)) = io
        /\ ctx'.op = ctx.op

\* C40: every public operation ends after a bounded number of transport calls
\* whatever the meter sends, NAK for ever included, as long as each
\* transport call returns: every return of a call ends the operation or makes
\* its log longer, the log of one call is bounded, in one call no frame is
\* written more than 5 times and the handshake is run at most once.
C40_Terminates == [][C40_Step /\ C40_Bounded']_vars

\* Command has come to its end after the meter answered NAK to the request five
\* times
C40_Witness ==
    /\ pc = "done"
    /\ ctx.op = "Command"
    /\ res.err = "ErrNAK"
    /\ CountW(RequestWire) = MaxAttempts
    /\ AlwaysNAK

====
